---- MODULE Spec2Model ----
(***************************************************************************)
(* Verification model of the KRXUSD market-data service.                   *)
(*                                                                         *)
(* Part 1: the synchronisation engine (Gap Filling) of                     *)
(* api/services/stock_service.py, the daily-price store it writes          *)
(* (api/models/stock.py) and its callers (api/routers/stocks.py,           *)
(* api/services/scheduler_service.py).                                     *)
(*                                                                         *)
(* Part 2: the USD conversion of a price history in the stand-alone       *)
(* backend, backend/app/services/usd_converter.py, over the history        *)
(* services it calls (stock_service.py, exchange_service.py).              *)
(*                                                                         *)
(* Part 3: the active-symbol cache (ActiveSymbolsCache of                  *)
(* api/core/redis.py, a Redis sorted set) and the realtime update job of   *)
(* api/services/scheduler_service.py that reads and prunes it.  Times are  *)
(* whole seconds; the job is cut at the calls of its update service.       *)
(*                                                                         *)
(* Dates are day numbers (integers); timedelta(days=n) is n.  An optional  *)
(* value is a tuple: <<>> is Python's None, <<x>> is the value x.          *)
(* Every coroutine is cut at its await points: one action is the code      *)
(* that runs between two suspensions of the event loop.                    *)
(***************************************************************************)
EXTENDS Bags, FiniteSets, Integers, Sequences, TLC

\* ------------------------------------------------------------------ bounds
\* Day numbers count from a Monday: day d falls on weekday d % 7.
\* first day for which the data providers have a bar (3 = Thursday)
FirstDay == 3
\* date.today() in the initial state (4 = Friday)
StartDay == 4
\* last day the clock reaches (6 = Sunday)
MaxDay == 6
\* number of calls the concurrent callers start on the fresh database
MaxCalls == 2

\* ------------------------------------------------------- program constants
DEFAULT_HISTORY_DAYS == 365

None == <<>>
Some(x) == <<x>>
IsNone(o) == o = <<>>
Val(o) == o[1]

\* request symbols as callers type them; the service upper-cases them
RawSymbols == {"aaa", "AAA", "BBB"}
upper(s) == IF s = "aaa" THEN "AAA" ELSE s
Symbols == {upper(s) : s \in RawSymbols}

\* Callers of the service.  "client" issues one request after the other
\* for one stock while the days pass (specification Spec); "api" and
\* "batch" are a request and the batch job running concurrently on one
\* day, over two stocks (specification ConcSpec).
SeqCallers == {"client"}
ConcCallers == {"api", "batch"}
RequestSymbols(p) == IF p \in SeqCallers THEN {"aaa", "AAA"}
                     ELSE {"AAA", "BBB"}

\* data providers, in the order _fetch_historical_prices tries them
Sources == {"financedatareader", "yfinance"}

\* StockSyncRequest.days of the requests: the field's default
RequestDays == {DEFAULT_HISTORY_DAYS}

SyncCase == [CASE_A_NO_DATA |-> "no_data",
             CASE_B_GAP_DETECTED |-> "gap_detected",
             CASE_C_UP_TO_DATE |-> "up_to_date"]

VARIABLES
    today,           \* date.today() of the process clock
    stocks,          \* table stocks: set of rows [id, symbol, listing_date]
    stock_prices,    \* table stock_prices: bag of rows
    sync_status,     \* table sync_status: stock_id -> row (data_type daily_price)
    exchange_rates,  \* table exchange_rates: set of rows [rate_date, rate]
    pc,              \* per caller: position in the coroutine it runs
    locals,          \* per caller: local variables of the running call
    returned,        \* what the step just taken returned or raised, if it
                     \* ended a call: <<>> or <<result>>
    lastOk,          \* symbol of the sync that ran and returned last on this
                     \* day, no other call having started since
    calls_left,      \* calls the callers may still start (-1: no limit)
    use_mock,        \* backend: settings.use_mock
    fx_feed,         \* backend: the days the USD/KRW feed has a close for
    usd_calls,       \* backend: the last get_usd_converted_history call,
                     \* after the one before it when that had the same
                     \* arguments
    now,             \* datetime.now().timestamp() of the API process
    ticks_left,      \* advances the clock of the API process may still make
    active_symbols,  \* sorted set krxusd:active:symbols: set of entries
                     \* [member, score]
    touch_log,       \* per symbol: time of its latest touch, if it was not
                     \* taken out of the set since (history variable)
    purged_at,       \* time of the last cleanup_stale, no touch since
                     \* (history variable)
    cache_ret,       \* the call of the cache made last and its result
    market_status_cache, \* key krxusd:market:status
    fx_cache,        \* realtime USD/KRW rate cache
    realtime_prices, \* symbols with a realtime price cache entry
    run_history,     \* list krxusd:scheduler:history, newest first
    scheduler_state, \* key krxusd:scheduler:state
    jobs,            \* per trigger: the execution of realtime_update_job
                     \* it started (position and local variables)
    job_ret,         \* local variables of the execution that ended last
    runs_left,       \* executions the triggers may still start
    market_ret,      \* what the last call of get_market_status returned
    batch_state,     \* key krxusd:batch:state
    batch_history,   \* list krxusd:batch:history, newest first
    popular_stocks_cache, \* keys krxusd:popular:{ranking_type}
    batch,           \* the run of the daily batch job in progress
    batch_ret,       \* how the batch job that ended last ended
    scheduler,       \* the scheduler object: "running" or "shut down"
    appenders,       \* per writer of a run history: its position in the
                     \* append
    appended,        \* per run history: number of records pushed so far
    stock_realtime_cache, \* keys krxusd:stock:realtime:{symbol}: per
                     \* symbol the entry with its fields, if there is one
    writers,         \* per writer of a realtime entry: its position in
                     \* StockRealtimeCache.set and the data it writes
    session          \* the AsyncSession one gather of the batch job
                     \* shares: its open transaction and, per symbol, the
                     \* position of the sync that runs on it

\* the variables of the synchronisation engine
syncvars == <<today, stocks, stock_prices, sync_status,
              exchange_rates, pc, locals, returned, lastOk, calls_left>>

\* the variables of the stand-alone backend
usdvars == <<use_mock, fx_feed, usd_calls>>

\* the variables of the active-symbol cache
cachevars == <<now, ticks_left, active_symbols, touch_log, purged_at,
               cache_ret>>

\* the variables of the realtime update job
jobvars == <<market_status_cache, fx_cache, realtime_prices,
             run_history, scheduler_state, jobs, job_ret, runs_left>>

\* the variables of the market calendar
calendarvars == <<market_ret>>

\* the variables of the daily batch job and of the scheduler under faults
batchvars == <<batch_state, batch_history, popular_stocks_cache, batch,
               batch_ret, scheduler>>

\* the variables of the writers of the run histories
histvars == <<appenders, appended>>

\* the variables of the realtime entries and of their writers, and the
\* database session of the batch job
quotevars == <<stock_realtime_cache, writers, session>>

\* the variables of the calendar, the batch job, the history writers and
\* the realtime entries
schedvars == <<calendarvars, batchvars, histvars, quotevars>>

\* the variables outside the synchronisation engine
othervars == <<usdvars, cachevars, jobvars, schedvars>>

vars == <<syncvars, othervars>>

dbvars == <<stocks, stock_prices, sync_status, exchange_rates>>

\* ------------------------------------------------------------ environment
\* close price (KRW) a provider reports for a day; yfinance reports the
\* adjusted close, so the two sources disagree on the same bar
ProviderClose(source, d) ==
    IF source = "financedatareader" THEN 70000 + 100 * d ELSE 69000 + 100 * d

\* A provider's frame is taken as it comes: the backup feed's oldest bar
\* is corrupt, its High lies below its Low
CorruptBar(source, d) == source = "yfinance" /\ d = FirstDay

ProviderLow(source, d) == ProviderClose(source, d) - 500

ProviderHigh(source, d) ==
    IF CorruptBar(source, d) THEN ProviderClose(source, d) - 600
    ELSE ProviderClose(source, d) + 500

ProviderOpen(source, d) == ProviderClose(source, d) - 100

ProviderVolume(source, d) == 1000 + d

\* USD/KRW rate quoted for a day
RateOn(d) == 1300 + d

Min(S) == CHOOSE x \in S : \A y \in S : x <= y
Max(S) == CHOOSE x \in S : \A y \in S : x >= y

RECURSIVE SortedSeq(_)
SortedSeq(S) == IF S = {} THEN <<>>
                ELSE LET m == Min(S) IN <<m>> \o SortedSeq(S \ {m})

\* date.weekday(): 0 = Monday ... 6 = Sunday
weekday(d) == d % 7

\* market_hours.is_weekend
is_weekend(check_date) == weekday(check_date) >= 5

\* The bars a provider holds for [start, end]: one per day the market
\* traded; the bar of the running day may or may not be published yet.
RangeDays(start, end, with_today) ==
    {d \in FirstDay..today :
        /\ IsNone(start) \/ Val(start) <= d
        /\ IsNone(end) \/ d <= Val(end)
        /\ ~is_weekend(d)
        /\ d < today \/ with_today}

\* the list of price dicts built from a provider's DataFrame (index order)
BarsOf(source, days) ==
    LET ds == SortedSeq(days)
    IN  [i \in 1..Len(ds) |-> [price_date |-> ds[i],
                               open_price |-> ProviderOpen(source, ds[i]),
                               high_price |-> ProviderHigh(source, ds[i]),
                               low_price |-> ProviderLow(source, ds[i]),
                               close_price |-> ProviderClose(source, ds[i]),
                               volume |-> ProviderVolume(source, ds[i]),
                               source |-> source]]

\* ---------------------------------------------------------- pure helpers
\* round(n / d, 0) as Python's Decimal rounds: ROUND_HALF_EVEN
RoundHalfEven(n, d) ==
    LET q == n \div d
        r == n % d
    IN  IF 2 * r > d THEN q + 1
        ELSE IF 2 * r < d THEN q
        ELSE IF q % 2 = 0 THEN q ELSE q + 1

\* round(close_price / exchange_rate, 4), in units of 1/10000 USD
close_price_usd(close, rate) == RoundHalfEven(close * 10000, rate)

\* stocks.id is a surrogate key from a serial; which number a stock gets
\* depends only on the order of creation and nothing reads it as a
\* number, so the model gives each symbol a fixed id (symmetry reduction)
NewId(symbol) == IF symbol = "AAA" THEN 1 ELSE 2

\* select(Stock).where(Stock.symbol == symbol.upper())
get_stock_by_symbol(symbol) ==
    LET found == {s \in stocks : s.symbol = upper(symbol)}
    IN  IF found = {} THEN None ELSE Some(CHOOSE s \in found : TRUE)

PriceRows(stock_id) == {r \in BagToSet(stock_prices) : r.stock_id = stock_id}

\* mutant: the oldest stored date instead of the latest
last_price_date_min(stock_id) ==
    IF PriceRows(stock_id) = {} THEN None
    ELSE Some(Min({r.price_date : r \in PriceRows(stock_id)}))

\* select(func.max(StockPrice.price_date)).where(stock_id == ...)
last_price_date(stock_id) ==
    IF PriceRows(stock_id) = {} THEN None
    ELSE Some(Max({r.price_date : r \in PriceRows(stock_id)}))

\* mutant: Case C only when the latest date is after yesterday
analyze_sync_status_strict(last, day) ==
    IF IsNone(last)
    THEN [sync_case |-> SyncCase.CASE_A_NO_DATA,
          start_date |-> Some(day - DEFAULT_HISTORY_DAYS),
          end_date |-> Some(day)]
    ELSE IF Val(last) > day - 1
    THEN [sync_case |-> SyncCase.CASE_C_UP_TO_DATE,
          start_date |-> None, end_date |-> None]
    ELSE [sync_case |-> SyncCase.CASE_B_GAP_DETECTED,
          start_date |-> Some(Val(last) + 1),
          end_date |-> Some(day)]

\* analyze_sync_status: (SyncCase, start_date_to_sync, end_date_to_sync)
analyze_sync_status(last, day) ==
    IF IsNone(last)
    THEN [sync_case |-> SyncCase.CASE_A_NO_DATA,
          start_date |-> Some(day - DEFAULT_HISTORY_DAYS),
          end_date |-> Some(day)]
    ELSE IF Val(last) >= day - 1
    THEN [sync_case |-> SyncCase.CASE_C_UP_TO_DATE,
          start_date |-> None, end_date |-> None]
    ELSE [sync_case |-> SyncCase.CASE_B_GAP_DETECTED,
          start_date |-> Some(Val(last) + 1),
          end_date |-> Some(day)]

\* mutant: sync without the early return
is_up_to_date_never(sync_case) == FALSE

\* "if sync_case == SyncCase.CASE_C_UP_TO_DATE": the early return of sync
is_up_to_date(sync_case) == sync_case = SyncCase.CASE_C_UP_TO_DATE

\* _get_exchange_rates_for_dates: date -> rate, missing dates filled with
\* the nearest earlier selected rate, else with the earliest selected one
get_exchange_rates_for_dates(dates) ==
    IF dates = {} THEN <<>>
    ELSE
    LET rows == {r \in exchange_rates :
                    r.rate_date >= Min(dates) /\ r.rate_date <= Max(dates)}
        sorted_dates == {r.rate_date : r \in rows}
        stored(d) == (CHOOSE r \in rows : r.rate_date = d).rate
        filled(d) == LET earlier == {rd \in sorted_dates : rd <= d}
                     IN  IF earlier # {} THEN stored(Max(earlier))
                         ELSE stored(Min(sorted_dates))
    IN  IF rows = {} THEN <<>>
        ELSE [d \in sorted_dates \cup dates |->
                 IF d \in sorted_dates THEN stored(d) ELSE filled(d)]

\* the row one statement of _save_prices_batch writes
PriceRow(stock_id, price_data, rate_map) ==
    LET exchange_rate == IF price_data.price_date \in DOMAIN rate_map
                         THEN Some(rate_map[price_data.price_date]) ELSE None
    IN  [stock_id |-> stock_id,
         price_date |-> price_data.price_date,
         open_price |-> price_data.open_price,
         high_price |-> price_data.high_price,
         low_price |-> price_data.low_price,
         close_price |-> price_data.close_price,
         volume |-> price_data.volume,
         exchange_rate |-> exchange_rate,
         close_price_usd |->
             IF ~IsNone(exchange_rate) /\ Val(exchange_rate) # 0
             THEN Some(close_price_usd(price_data.close_price,
                                       Val(exchange_rate)))
             ELSE None]

\* mutant: a plain INSERT into a table without the unique constraint
upsert_price_insert(table, row) == table (+) SetToBag({row})

\* INSERT ... ON CONFLICT ON CONSTRAINT uq_stock_prices_stock_date DO UPDATE
upsert_price(table, row) ==
    LET conflict == {r \in BagToSet(table) :
                        r.stock_id = row.stock_id /\ r.price_date = row.price_date}
    IN  IF conflict = {} THEN table (+) SetToBag({row})
        ELSE LET old == CHOOSE r \in conflict : TRUE
             IN  (table (-) SetToBag({old})) (+) SetToBag({row})

\* mutant: the loop stops one price dict short
RECURSIVE save_prices_batch_short(_, _, _, _)
save_prices_batch_short(table, stock_id, prices, rate_map) ==
    IF Len(prices) <= 1 THEN table
    ELSE save_prices_batch_short(
             upsert_price(table, PriceRow(stock_id, Head(prices), rate_map)),
             stock_id, Tail(prices), rate_map)

\* _save_prices_batch: one upsert per price dict, in list order, one commit
RECURSIVE save_prices_batch(_, _, _, _)
save_prices_batch(table, stock_id, prices, rate_map) ==
    IF prices = <<>> THEN table
    ELSE save_prices_batch(
             upsert_price(table, PriceRow(stock_id, Head(prices), rate_map)),
             stock_id, Tail(prices), rate_map)

\* _update_sync_status: upsert on uq_sync_status_stock_type
update_sync_status(table, stock_id, status, last_sync_date, error_message) ==
    LET row == IF stock_id \in DOMAIN table
               THEN [status |-> status,
                     last_sync_date |-> IF IsNone(last_sync_date)
                                        THEN table[stock_id].last_sync_date
                                        ELSE last_sync_date,
                     error_message |-> error_message]
               ELSE [status |-> status,
                     last_sync_date |-> last_sync_date,
                     error_message |-> error_message]
    IN  [id \in DOMAIN table \cup {stock_id} |->
            IF id = stock_id THEN row ELSE table[id]]

\* ------------------------------------------------------------- the state
NoAnalysis == [day |-> 0, last |-> None, listing_date |-> None,
               sync_case |-> "", start_date |-> None, end_date |-> None]

NoLocals == [op |-> "none", began |-> 0, symbol |-> "", force |-> FALSE,
             auto_sync |-> FALSE, stock_id |-> None,
             sync_case |-> "", ensure_case |-> "",
             start_date |-> None, end_date |-> None,
             historical_data |-> <<>>, rate_map |-> <<>>,
             analysis |-> NoAnalysis,
             fetches |-> 0, writes |-> 0, b2b |-> "no"]

\* the backend as deployed (use_mock defaults to True), no call made
UsdIdle ==
    /\ use_mock = TRUE
    /\ fx_feed = {}
    /\ usd_calls = <<>>

\* no call of the active-symbol cache was made yet
NoCacheCall == [op |-> "none", symbol |-> "", max_age |-> None, at |-> 0,
                members |-> {}, removed |-> {}, again |-> FALSE,
                active |-> FALSE]

\* an empty sorted set at time 0, the clock standing still
CacheIdle ==
    /\ now = 0
    /\ ticks_left = 0
    /\ active_symbols = {}
    /\ touch_log = [s \in Symbols |-> None]
    /\ purged_at = None
    /\ cache_ret = NoCacheCall

\* what starts an execution of realtime_update_job: the interval trigger
\* of the scheduler, or POST /scheduler/trigger
Triggers == {"interval", "manual"}

\* local variables of realtime_update_job before it runs
NoTick == [pc |-> "idle", job_start |-> 0, trading |-> FALSE,
           market_result |-> None, stock_result |-> None,
           exchange_result |-> None, fetched |-> {}, written |-> {},
           record |-> None]

\* empty caches, no execution started and none to start
JobIdle ==
    /\ market_status_cache = None
    /\ fx_cache = None
    /\ realtime_prices = {}
    /\ run_history = <<>>
    /\ scheduler_state = None
    /\ jobs = [t \in Triggers |-> NoTick]
    /\ job_ret = None
    /\ runs_left = 0

\* who appends to a run history: the two executions of the realtime job
\* and the two runs of the batch job that may be in progress at a time
Appenders == {"interval", "manual", "cron", "request"}

\* the run histories: krxusd:scheduler:history and krxusd:batch:history
HistoryKeys == {"scheduler", "batch"}

\* the writers of a realtime entry: the quote step of a tick (mset), the
\* refresh of the batch job and the refresh of a read path (set)
Writers == {"tick", "batch", "request"}

\* a writer that is not writing
NoWrite == [pc |-> "idle", updated_at |-> 0]

\* a sync that does not run on the shared session
NoSync == [pc |-> "idle", count |-> 0]

\* no transaction open on the shared session, no sync running on it
NoSession == [transaction |-> <<>>, syncs |-> [s \in Symbols |-> NoSync]]

\* no realtime entry, no writer writing, the shared session unused
QuoteIdle ==
    /\ stock_realtime_cache = [s \in Symbols |-> None]
    /\ writers = [w \in Writers |-> NoWrite]
    /\ session = NoSession

\* no batch run in progress
NoBatch == [pc |-> "idle", attempt |-> 0, today |-> 0,
            market_cap |-> <<>>, volume |-> <<>>, all_symbols |-> {},
            todo |-> {}, success |-> {}, failed |-> {},
            discovered |-> FALSE, synced |-> {}, fetched |-> FALSE,
            priced |-> {}, slept |-> 0, store_raised |-> FALSE]

\* the calendar was not asked, no batch job ran, the scheduler runs, the
\* run histories are empty
SchedIdle ==
    /\ market_ret = None
    /\ batch_state = None
    /\ batch_history = <<>>
    /\ popular_stocks_cache = {}
    /\ batch = NoBatch
    /\ batch_ret = None
    /\ scheduler = "running"
    /\ appenders = [a \in Appenders |-> "idle"]
    /\ appended = [k \in HistoryKeys |-> 0]
    /\ QuoteIdle

\* the components outside the synchronisation engine, not running
OthersIdle == UsdIdle /\ CacheIdle /\ JobIdle /\ SchedIdle

Init ==
    /\ today = StartDay
    /\ stocks = {}
    /\ stock_prices = EmptyBag
    /\ sync_status = <<>>
    /\ exchange_rates = {}
    /\ pc = [p \in SeqCallers |-> "idle"]
    /\ locals = [p \in SeqCallers |-> NoLocals]
    /\ returned = None
    /\ lastOk = None
    /\ calls_left = -1
    /\ OthersIdle

ConcInit ==
    /\ today = StartDay
    /\ stocks = {}
    /\ stock_prices = EmptyBag
    /\ sync_status = <<>>
    /\ exchange_rates = {}
    /\ pc = [p \in ConcCallers |-> "idle"]
    /\ locals = [p \in ConcCallers |-> NoLocals]
    /\ returned = None
    /\ lastOk = None
    /\ calls_left = MaxCalls
    /\ OthersIdle

Callers == DOMAIN pc

\* what sync_stock_prices returns (raised = FALSE) or raises, wrapped by
\* ensure_data_synced when the call came through it; with the record of
\* what the call did (analysis, provider fetches, table writes)
ResultOf(p, l, raised, sync_case, synced_count, message) ==
        [caller |-> p, op |-> l.op, began |-> l.began, symbol |-> l.symbol,
         raised |-> raised /\ l.op # "ensure",
         sync_error |-> raised /\ l.op = "ensure",
         sync_case |-> IF l.op = "ensure" THEN l.ensure_case ELSE sync_case,
         inner_case |-> sync_case,
         synced_count |-> synced_count,
         start_date |-> l.start_date, end_date |-> l.end_date,
         message |-> message,
         needs_sync |-> l.op = "ensure",
         synced |-> l.op = "ensure" /\ ~raised,
         force |-> l.force, auto_sync |-> l.auto_sync,
         stock_id |-> l.stock_id,
         historical_data |-> l.historical_data,
         analysis |-> l.analysis,
         fetches |-> l.fetches, writes |-> l.writes, b2b |-> l.b2b]

\* a step that ends no call and starts none
Continue ==
    /\ returned' = None
    /\ UNCHANGED <<lastOk, calls_left, othervars>>

\* the call of caller p ends: it returns or raises to its caller
Finish(p, res) ==
    /\ pc' = [pc EXCEPT ![p] = "idle"]
    /\ locals' = [locals EXCEPT ![p] = NoLocals]
    /\ returned' = Some(res)
    /\ UNCHANGED <<calls_left, othervars>>
    /\ lastOk' = IF ~res.raised /\ Callers = {p} /\ res.began = today
                    /\ (res.op = "sync" \/ res.synced)
                 THEN Some(res.symbol) ELSE None

\* the call of caller p starts: every other running call is disturbed
Begin(p, l) ==
    /\ pc[p] = "idle"
    /\ calls_left # 0
    /\ calls_left' = IF calls_left < 0 THEN calls_left ELSE calls_left - 1
    /\ locals' = [q \in Callers |->
                     IF q = p THEN [l EXCEPT !.began = today]
                     ELSE [locals[q] EXCEPT !.b2b = "no"]]
    /\ returned' = None
    /\ lastOk' = None
    /\ UNCHANGED othervars

\* is this call the second of two back-to-back syncs of one symbol, and
\* where did the first leave the cursor
BackToBack(symbol) ==
    IF lastOk # Some(symbol) THEN "no"
    ELSE IF \E s \in stocks, r \in BagToSet(stock_prices) :
                /\ s.symbol = symbol
                /\ r.stock_id = s.id
                /\ r.price_date >= today - 1
         THEN "current" ELSE "stale"

\* ------------------------------------------------------------ environment
\* midnight: date.today() moves on
Tick ==
    /\ today < MaxDay
    /\ today' = today + 1
    /\ lastOk' = None
    /\ returned' = None
    /\ UNCHANGED <<calls_left, othervars>>
    /\ locals' = [q \in Callers |-> [locals[q] EXCEPT !.b2b = "no"]]
    /\ UNCHANGED <<dbvars, pc>>

\* ExchangeRateService.fetch_and_save_current_rate -> save_rate_to_db:
\* upsert of the rate quoted now
save_rate_to_db ==
    /\ exchange_rates' =
           {r \in exchange_rates : r.rate_date # today}
               \cup {[rate_date |-> today, rate |-> RateOn(today)]}
    /\ Continue
    /\ UNCHANGED <<today, stocks, stock_prices, sync_status, pc, locals>>

\* ------------------------------------------------- sync_stock_prices(...)
\* POST /{symbol}/sync: symbol.upper(), start_date only with force_full_sync
sync_stock_prices(p) ==
    \E raw \in RequestSymbols(p), force \in BOOLEAN, days \in RequestDays :
        /\ Begin(p, [NoLocals EXCEPT
                        !.op = "sync", !.symbol = upper(raw),
                        !.force = force,
                        !.start_date = IF force THEN Some(today - days)
                                       ELSE None,
                        !.b2b = IF force THEN "no"
                                ELSE BackToBack(upper(raw))])
        /\ pc' = [pc EXCEPT ![p] = "get_stock"]
        /\ UNCHANGED <<today, dbvars>>

\* get_or_create_stock, first half: the select
get_or_create_stock(p) ==
    /\ pc[p] = "get_stock"
    /\ LET stock == get_stock_by_symbol(locals[p].symbol)
       IN  IF IsNone(stock)
           THEN /\ pc' = [pc EXCEPT ![p] = "create_stock"]
                /\ UNCHANGED locals
           ELSE /\ pc' = [pc EXCEPT ![p] = "analyze"]
                /\ locals' = [locals EXCEPT
                                 ![p].stock_id = Some(Val(stock).id)]
    /\ Continue
    /\ UNCHANGED <<today, dbvars>>

\* get_or_create_stock, second half: db.add(Stock(...)); commit.  The
\* unique index on stocks.symbol rejects the insert when a concurrent call
\* created the stock meanwhile; the error leaves sync_stock_prices before
\* its try block.
create_stock(p) ==
    /\ pc[p] = "create_stock"
    /\ IF IsNone(get_stock_by_symbol(locals[p].symbol))
       THEN /\ stocks' = stocks \cup {[id |-> NewId(locals[p].symbol),
                                      symbol |-> locals[p].symbol,
                                      listing_date |-> None]}
            /\ pc' = [pc EXCEPT ![p] = "analyze"]
            /\ locals' = [locals EXCEPT
                             ![p].stock_id = Some(NewId(locals[p].symbol))]
            /\ Continue
       ELSE /\ UNCHANGED stocks
            /\ Finish(p, ResultOf(p, locals[p], TRUE, "failed", 0,
                                  "IntegrityError"))
    /\ UNCHANGED <<today, stock_prices, sync_status, exchange_rates>>

\* sync_stock_prices, "Determine sync range using gap filling strategy":
\* the max(price_date) query of analyze_sync_status and the branch on it
determine_sync_range(p) ==
    /\ pc[p] = "analyze"
    /\ LET last == last_price_date(Val(locals[p].stock_id))
           a == analyze_sync_status(last, today)
           stock == CHOOSE s \in stocks : s.id = Val(locals[p].stock_id)
           analysed == IF IsNone(locals[p].start_date) /\ ~locals[p].force
                       THEN [day |-> today, last |-> last,
                             listing_date |-> stock.listing_date,
                             sync_case |-> a.sync_case,
                             start_date |-> a.start_date,
                             end_date |-> a.end_date]
                       ELSE locals[p].analysis
           l == [locals[p] EXCEPT !.analysis = analysed]
       IN  IF IsNone(l.start_date) /\ ~l.force
           THEN IF is_up_to_date(a.sync_case)
                THEN Finish(p, ResultOf(p, l, FALSE, a.sync_case, 0,
                                        "Already up to date"))
                ELSE /\ pc' = [pc EXCEPT ![p] = "set_syncing"]
                     /\ locals' = [locals EXCEPT ![p] =
                            [l EXCEPT !.sync_case = a.sync_case,
                                      !.start_date = a.start_date,
                                      !.end_date = IF IsNone(a.end_date)
                                                   THEN Some(today)
                                                   ELSE a.end_date]]
                     /\ Continue
           ELSE /\ pc' = [pc EXCEPT ![p] = "set_syncing"]
                /\ locals' = [locals EXCEPT
                       ![p].sync_case =
                           IF l.force THEN SyncCase.CASE_A_NO_DATA
                           ELSE SyncCase.CASE_B_GAP_DETECTED,
                       ![p].start_date =
                           IF l.force /\ IsNone(l.start_date)
                           THEN Some(today - DEFAULT_HISTORY_DAYS)
                           ELSE l.start_date,
                       ![p].end_date = Some(today)]
                /\ Continue
    /\ UNCHANGED <<today, dbvars>>

\* _update_sync_status(stock.id, "daily_price", "syncing")
set_syncing(p) ==
    /\ pc[p] = "set_syncing"
    /\ sync_status' = update_sync_status(sync_status, Val(locals[p].stock_id),
                                         "syncing", None, None)
    /\ pc' = [pc EXCEPT ![p] = "fetch"]
    /\ locals' = [locals EXCEPT ![p].writes = @ + 1]
    /\ Continue
    /\ UNCHANGED <<today, stocks, stock_prices, exchange_rates>>

\* _fetch_historical_prices: FinanceDataReader first; yfinance only when
\* FinanceDataReader raised; StockDataFetchError when both raised.  A
\* provider answers with the bars it holds for the range, or with an
\* empty frame.
fetch_historical_prices(p) ==
    /\ pc[p] = "fetch"
    /\ LET l == locals[p]
       IN  \E tried \in 1..2, ok \in BOOLEAN, empty \in BOOLEAN,
              with_today \in BOOLEAN :
             /\ ~ok => (tried = 2 /\ empty /\ with_today)
             /\ empty => with_today
             /\ LET source == IF tried = 1 THEN "financedatareader"
                              ELSE "yfinance"
                    days == IF empty THEN {}
                            ELSE RangeDays(l.start_date, l.end_date,
                                           with_today)
                    historical_data == BarsOf(source, days)
                IN  /\ locals' = [locals EXCEPT
                           ![p].fetches = tried,
                           ![p].historical_data = historical_data]
                    /\ pc' = [pc EXCEPT ![p] =
                           IF ~ok THEN "fail"
                           ELSE IF historical_data = <<>> THEN "complete_empty"
                           ELSE "get_rates"]
    /\ Continue
    /\ UNCHANGED <<today, dbvars>>

\* "if not historical_data": status completed, zero synced, no data
complete_empty(p) ==
    /\ pc[p] = "complete_empty"
    /\ LET l == [locals[p] EXCEPT !.writes = @ + 1]
       IN  /\ sync_status' = update_sync_status(sync_status, Val(l.stock_id),
                                                "completed", l.end_date, None)
           /\ Finish(p, ResultOf(p, l, FALSE, l.sync_case, 0,
                                 "No data available for the period"))
    /\ UNCHANGED <<today, stocks, stock_prices, exchange_rates>>

\* _get_exchange_rates_for_dates([d["price_date"] for d in historical_data])
get_rates(p) ==
    /\ pc[p] = "get_rates"
    /\ LET hd == locals[p].historical_data
           dates == {hd[i].price_date : i \in 1..Len(hd)}
       IN  locals' = [locals EXCEPT
                         ![p].rate_map = get_exchange_rates_for_dates(dates)]
    /\ pc' = [pc EXCEPT ![p] = "save"]
    /\ Continue
    /\ UNCHANGED <<today, dbvars>>

\* _save_prices_batch(stock.id, historical_data, exchange_rates)
save_prices(p) ==
    /\ pc[p] = "save"
    /\ LET l == locals[p]
       IN  /\ stock_prices' = save_prices_batch(stock_prices, Val(l.stock_id),
                                                l.historical_data, l.rate_map)
           /\ locals' = [locals EXCEPT ![p].writes = @ + 1]
    /\ pc' = [pc EXCEPT ![p] = "complete"]
    /\ Continue
    /\ UNCHANGED <<today, stocks, sync_status, exchange_rates>>

\* status completed(last_sync_date = end_date); return the sync result
complete(p) ==
    /\ pc[p] = "complete"
    /\ LET l == [locals[p] EXCEPT !.writes = @ + 1]
       IN  /\ sync_status' = update_sync_status(sync_status, Val(l.stock_id),
                                                "completed", l.end_date, None)
           /\ Finish(p, ResultOf(p, l, FALSE, l.sync_case,
                                 Len(l.historical_data), ""))
    /\ UNCHANGED <<today, stocks, stock_prices, exchange_rates>>

\* str(e)[:500]
ERROR_MESSAGE_CHARS == 500

\* the lengths str(e) has: of a short message, of one of exactly
\* ERROR_MESSAGE_CHARS characters, of a longer one
ErrorLengths == {ERROR_MESSAGE_CHARS \div 10, ERROR_MESSAGE_CHARS,
                 ERROR_MESSAGE_CHARS + 1}

\* str(e), the whole of it
whole(chars, n) == chars

\* str(e)[:n], a text standing for its number of characters
truncate(chars, n) == IF chars <= n THEN chars ELSE n

\* except Exception: status failed(error_message = str(e)[:500]); raise
fail(p) ==
    /\ pc[p] = "fail"
    /\ \E chars \in ErrorLengths :
         LET l == [locals[p] EXCEPT !.writes = @ + 1]
         IN  /\ sync_status' =
                    update_sync_status(
                        sync_status, Val(l.stock_id), "failed", None,
                        Some(truncate(chars, ERROR_MESSAGE_CHARS)))
             /\ Finish(p, ResultOf(p, l, TRUE, "failed", 0,
                                   "StockDataFetchError"))
    /\ UNCHANGED <<today, stocks, stock_prices, exchange_rates>>

\* ------------------------------------------- ensure_data_synced(symbol, ...)
\* entry: POST /{symbol}/ensure-synced and the batch job's _update_single_stock
ensure_data_synced(p) ==
    \E raw \in RequestSymbols(p), auto_sync \in BOOLEAN :
        /\ Begin(p, [NoLocals EXCEPT
                        !.op = "ensure", !.symbol = upper(raw),
                        !.auto_sync = auto_sync])
        /\ pc' = [pc EXCEPT ![p] = "ensure_analyze"]
        /\ UNCHANGED <<today, dbvars>>

\* mutant: auto_sync is ignored
should_sync_always(needs_sync, auto_sync) == needs_sync

\* a sync is started only when one is needed and auto_sync allows it
should_sync(needs_sync, auto_sync) == needs_sync /\ auto_sync

\* run analyze; report when up to date or when auto_sync is off; else sync
ensure_analyze(p) ==
    /\ pc[p] = "ensure_analyze"
    /\ LET stock == get_stock_by_symbol(locals[p].symbol)
           last == IF IsNone(stock) THEN None
                   ELSE last_price_date(Val(stock).id)
           a == analyze_sync_status(last, today)
           needs_sync == a.sync_case # SyncCase.CASE_C_UP_TO_DATE
           l == [locals[p] EXCEPT
                    !.analysis = [day |-> today, last |-> last,
                                  listing_date |->
                                      IF IsNone(stock) THEN None
                                      ELSE Val(stock).listing_date,
                                  sync_case |-> a.sync_case,
                                  start_date |-> a.start_date,
                                  end_date |-> a.end_date],
                    !.ensure_case = a.sync_case]
       IN  IF should_sync(needs_sync, l.auto_sync)
           THEN /\ pc' = [pc EXCEPT ![p] = "get_stock"]
                /\ locals' = [locals EXCEPT ![p] = l]
                /\ Continue
           ELSE Finish(p, [ResultOf(p, [l EXCEPT !.start_date = a.start_date,
                                                 !.end_date = a.end_date],
                                    FALSE, "", 0,
                                    IF needs_sync THEN "Sync needed"
                                    ELSE "Data is up to date")
                           EXCEPT !.needs_sync = needs_sync,
                                  !.synced = FALSE])
    /\ UNCHANGED <<today, dbvars>>

\* ------------------------------------------------------ the specification
\* one step of the call caller p is running, or the start of its next call
Call(p) ==
    \/ sync_stock_prices(p)
    \/ get_or_create_stock(p)
    \/ create_stock(p)
    \/ determine_sync_range(p)
    \/ set_syncing(p)
    \/ fetch_historical_prices(p)
    \/ complete_empty(p)
    \/ get_rates(p)
    \/ save_prices(p)
    \/ complete(p)
    \/ fail(p)
    \/ ensure_data_synced(p)
    \/ ensure_analyze(p)

\* requests one after the other, over the days
Next ==
    \/ Tick
    \/ save_rate_to_db
    \/ \E p \in SeqCallers : Call(p)

Spec == Init /\ [][Next]_vars

\* concurrent requests on one day
ConcNext ==
    \/ save_rate_to_db
    \/ \E p \in ConcCallers : Call(p)

ConcSpec == ConcInit /\ [][ConcNext]_vars

\* ------------------------------------------------------------ properties
\* the result of the call that has just ended, if one has
Returned == IF IsNone(returned) THEN {} ELSE {Val(returned)}

\* every analysis on record: of the running calls and of the ended one
Analyses == {a \in {locals[p].analysis : p \in Callers}
                     \cup {r.analysis : r \in Returned} : a.sync_case # ""}

\* the latest stored price_date of a symbol, read from the tables
StoredLast(symbol) ==
    LET dates == {r.price_date : r \in
                     {x \in BagToSet(stock_prices) :
                         \E s \in stocks : s.symbol = symbol /\ s.id = x.stock_id}}
    IN  IF dates = {} THEN None ELSE Some(Max(dates))

\* the results of calls in which sync_stock_prices returned normally after
\* analysing or fetching a gap
SyncReturns == {r \in Returned :
                   r.inner_case \in {SyncCase.CASE_B_GAP_DETECTED,
                                     SyncCase.CASE_C_UP_TO_DATE}}

C2_GapEndsYesterday ==
    \A a \in Analyses :
        (~IsNone(a.last) /\ Val(a.last) < a.day - 1)
            => /\ a.sync_case = SyncCase.CASE_B_GAP_DETECTED
               /\ a.start_date = Some(Val(a.last) + 1)
               /\ a.end_date = Some(a.day - 1)

\* sync.maxHistoryYears
MAX_HISTORY_YEARS == 10

\* the first day of a full history: the listing date, or today minus the
\* default history when it is unknown, but never more than the maximum
\* number of years back
calculate_sync_start_date(listing_date, day) ==
    Max({IF IsNone(listing_date) THEN day - DEFAULT_HISTORY_DAYS
         ELSE Val(listing_date),
         day - MAX_HISTORY_YEARS * 365})

\* C3: for a stock without rows, analyze answers Case A with
\* start = max(listing_date or today - defaultHistoryDays,
\* today - maxHistoryYears * 365) and end = yesterday, not today.
C3_NoDataRange ==
    \A a \in Analyses :
        IsNone(a.last)
            => /\ a.sync_case = SyncCase.CASE_A_NO_DATA
               /\ a.start_date =
                      Some(calculate_sync_start_date(a.listing_date, a.day))
               /\ a.end_date = Some(a.day - 1)

C5_CursorAtYesterday ==
    \A r \in SyncReturns :
        LET last == StoredLast(r.symbol)
        IN  \/ ~IsNone(last) /\ Val(last) >= today - 1
            \/ /\ r.historical_data = <<>>
               /\ r.synced_count = 0
               /\ r.message = "No data available for the period"

\* C5, amended: once such a sync returns, every bar the provider returned
\* is stored, so the latest stored price_date is yesterday or later unless
\* the provider returned no bar dated yesterday or later; an empty series
\* is reported as zero synced and no data.
C5_CursorAtLatestBar ==
    \A r \in SyncReturns :
        LET last == StoredLast(r.symbol)
            hd == r.historical_data
        IN  /\ \/ ~IsNone(last) /\ Val(last) >= today - 1
               \/ \A i \in 1..Len(hd) : hd[i].price_date < today - 1
            /\ \A i \in 1..Len(hd) :
                   ~IsNone(last) /\ Val(last) >= hd[i].price_date
            /\ (hd = <<>> /\ r.inner_case = SyncCase.CASE_B_GAP_DETECTED)
                   => /\ r.synced_count = 0
                      /\ r.message = "No data available for the period"

\* a gap sync has returned after storing bars up to yesterday or later
C5_Witness ==
    \E r \in SyncReturns :
        /\ r.inner_case = SyncCase.CASE_B_GAP_DETECTED
        /\ r.historical_data # <<>>
        /\ r.synced_count = Len(r.historical_data)
        /\ ~IsNone(StoredLast(r.symbol))
        /\ Val(StoredLast(r.symbol)) >= today - 1

\* C6: when its analysis answers Case C, sync returns up_to_date with
\* synced_count 0 and has called no provider and written neither
\* stock_prices nor sync_status.
C6_CaseCReturnsEarly ==
    \A r \in Returned :
        (r.op = "sync" /\ r.analysis.sync_case = SyncCase.CASE_C_UP_TO_DATE)
            => /\ ~r.raised
               /\ r.sync_case = SyncCase.CASE_C_UP_TO_DATE
               /\ r.synced_count = 0
               /\ r.fetches = 0
               /\ r.writes = 0

\* a sync has returned on a Case C analysis of a stock that has rows
C6_Witness ==
    \E r \in Returned :
        /\ r.op = "sync"
        /\ r.analysis.sync_case = SyncCase.CASE_C_UP_TO_DATE
        /\ r.message = "Already up to date"
        /\ ~IsNone(StoredLast(r.symbol))

\* C7: ensure_data_synced with auto_sync off writes neither stock_prices
\* nor sync_status and calls neither the sync nor a provider; it reports
\* the sync case of the stored data, needs_sync = (case # up_to_date) and
\* synced = false.
C7_EnsureWithoutAutoSync ==
    \A r \in Returned :
        (r.op = "ensure" /\ ~r.auto_sync)
            => /\ r.writes = 0 /\ r.fetches = 0
               /\ r.inner_case = ""
               /\ ~r.synced /\ ~r.raised /\ ~r.sync_error
               /\ r.needs_sync = (r.sync_case # SyncCase.CASE_C_UP_TO_DATE)
               /\ r.sync_case =
                      LET last == StoredLast(r.symbol)
                      IN  IF IsNone(last) THEN SyncCase.CASE_A_NO_DATA
                          ELSE IF Val(last) >= today - 1
                               THEN SyncCase.CASE_C_UP_TO_DATE
                               ELSE SyncCase.CASE_B_GAP_DETECTED

\* ensure_data_synced with auto_sync off has reported a gap it left open
C7_Witness ==
    \E r \in Returned :
        /\ r.op = "ensure" /\ ~r.auto_sync
        /\ r.sync_case = SyncCase.CASE_B_GAP_DETECTED
        /\ r.needs_sync /\ ~r.synced
        /\ r.message = "Sync needed"

\* the part of a sync from the provider call to the stored batch
InFetchAndStore(p) == pc[p] \in {"fetch", "get_rates", "save"}

\* C8: syncs of one symbol are serialised: no two calls are at the same
\* time between the provider call and the stored batch for one symbol.
C8_OneSyncPerSymbol ==
    \A p, q \in Callers :
        (p # q /\ InFetchAndStore(p) /\ InFetchAndStore(q))
            => locals[p].symbol # locals[q].symbol

\* stock_prices holds at most one row per (stock_id, price_date)
UniqueStockDate ==
    \A r \in BagToSet(stock_prices) :
        /\ CopiesIn(r, stock_prices) = 1
        /\ \A x \in BagToSet(stock_prices) :
               (x.stock_id = r.stock_id /\ x.price_date = r.price_date)
                   => x = r

\* a stored batch leaves, for each of its dates, the row of its last price
\* dict of that date, and adds a row only for a date the stock had none for
BatchOverwrites ==
    \A p \in Callers :
        (pc[p] = "save" /\ pc'[p] = "complete")
            => LET l == locals[p]
                   hd == l.historical_data
                   id == Val(l.stock_id)
                   dates == {hd[i].price_date : i \in 1..Len(hd)}
                   had == {r.price_date : r \in PriceRows(id)}
                   lastOf(d) == hd[Max({i \in 1..Len(hd) :
                                           hd[i].price_date = d})]
               IN  /\ \A d \in dates :
                          CopiesIn(PriceRow(id, lastOf(d), l.rate_map),
                                   stock_prices') = 1
                   /\ BagCardinality(stock_prices') =
                          BagCardinality(stock_prices)
                              + Cardinality(dates \ had)

\* C9: in every reachable state stock_prices holds at most one row per
\* (stock, price_date); an upsert for an existing key overwrites the price
\* and USD columns instead of adding a row.
C9_OneRowPerStockDate == []UniqueStockDate /\ [][BatchOverwrites]_vars

\* two calls have each stored a bar of one stock and date, with different
\* prices, and the table holds one row for it: that of one of them
C9_Witness ==
    \E p, q \in Callers :
        /\ p # q /\ pc[p] = "complete" /\ pc[q] = "complete"
        /\ locals[p].stock_id = locals[q].stock_id
        /\ \E i \in 1..Len(locals[p].historical_data),
              j \in 1..Len(locals[q].historical_data) :
               LET a == locals[p].historical_data[i]
                   b == locals[q].historical_data[j]
                   rows == {r \in PriceRows(Val(locals[p].stock_id)) :
                               r.price_date = a.price_date}
               IN  /\ a.price_date = b.price_date
                   /\ a.close_price # b.close_price
                   /\ Cardinality(rows) = 1
                   /\ \A r \in rows :
                          /\ CopiesIn(r, stock_prices) = 1
                          /\ r.close_price \in {a.close_price, b.close_price}

\* the batches a sync can pass to _save_prices_batch on this day: the
\* bars of a provider, or of both one after the other, for any days
BatchPrices ==
    LET days == {d \in FirstDay..today : ~is_weekend(d)}
    IN  UNION {{BarsOf("financedatareader", D), BarsOf("yfinance", D),
                BarsOf("financedatareader", D) \o BarsOf("yfinance", D)} :
               D \in SUBSET days}

\* C10: _save_prices_batch is idempotent: applied a second time with the
\* same stock, bars and rate map it leaves stock_prices as the first
\* application left it.  Stated of the batch a call has just stored, and
\* of every batch the next call can store in the tables between calls.
C10_SaveBatchIdempotent ==
    /\ \A p \in Callers :
           pc[p] = "complete"
               => save_prices_batch(stock_prices, Val(locals[p].stock_id),
                                    locals[p].historical_data,
                                    locals[p].rate_map) = stock_prices
    /\ (\A p \in Callers : pc[p] = "idle")
           => \A stock_id \in {s.id : s \in stocks}, prices \in BatchPrices :
                  LET dates == {prices[i].price_date : i \in 1..Len(prices)}
                      rate_map == get_exchange_rates_for_dates(dates)
                      once == save_prices_batch(stock_prices, stock_id,
                                                prices, rate_map)
                  IN  save_prices_batch(once, stock_id, prices, rate_map)
                          = once

\* a call has just stored a batch of bars with their rates
C10_Witness ==
    \E p \in Callers :
        /\ pc[p] = "complete"
        /\ locals[p].historical_data # <<>>
        /\ locals[p].rate_map # <<>>
        /\ \A i \in 1..Len(locals[p].historical_data) :
               CopiesIn(PriceRow(Val(locals[p].stock_id),
                                 locals[p].historical_data[i],
                                 locals[p].rate_map), stock_prices) = 1

\* C11: every row of stock_prices has low <= open <= high,
\* low <= close <= high and volume >= 0: a bar a provider delivers with
\* high < low is rejected, the other bars of the fetch are stored.
C11_StoredBarsValid ==
    \A r \in BagToSet(stock_prices) :
        /\ r.low_price <= r.open_price /\ r.open_price <= r.high_price
        /\ r.low_price <= r.close_price /\ r.close_price <= r.high_price
        /\ r.volume >= 0

\* the days a missing rate is carried forward: "for i in range(1, 5)"
FX_CARRY_DAYS == 4

\* the stored rates a bar of day d may be converted with: of day d or of
\* one of the FX_CARRY_DAYS days before it
RecentRates(d) ==
    {r \in exchange_rates : r.rate_date <= d /\ r.rate_date >= d - FX_CARRY_DAYS}

\* C12: the rate sync attaches to a bar is the most recent stored rate of
\* the bar's date or of at most 4 days before it; when there is none the
\* bar gets no rate (both USD columns null): never an older rate, never
\* a later-dated one.
C12_RateOfBarIsRecent ==
    [][\A p \in Callers :
          (pc[p] = "get_rates" /\ pc'[p] = "save")
              => LET hd == locals[p].historical_data
                     rate_map == locals'[p].rate_map
                 IN  \A i \in 1..Len(hd) :
                         LET d == hd[i].price_date
                         IN  d \in DOMAIN rate_map
                                 => /\ RecentRates(d) # {}
                                    /\ \E r \in RecentRates(d) :
                                           /\ r.rate = rate_map[d]
                                           /\ \A x \in RecentRates(d) :
                                                  x.rate_date <= r.rate_date]_vars

\* ------------------------------------------ backend: USD converted history
\* number of values a random draw of the mock generators can take
MaxDraw == 2

Draws == 1..MaxDraw

\* number of days after the first a history can be asked for
MaxSpan == 4

\* the days a history can be asked for
UsdDays == FirstDay..FirstDay + MaxSpan

\* the stock codes of the requests: a listed one and an unknown one
MOCK_STOCKS == {"005930"}

Codes == MOCK_STOCKS \cup {"INVALID"}

\* what a FinanceDataReader call does: it answers with the frame of the
\* range, which is empty when the feed has nothing in it, or raises
Outcomes == {"ok", "raise"}

\* "if current_date.weekday() < 5" of the mock generators
TradingDays(start_date, end_date) ==
    {d \in start_date..end_date : weekday(d) < 5}

\* StockService.get_stock_info: the info of a listed code, else None
get_stock_info(code) == IF code \in MOCK_STOCKS THEN Some(code) ELSE None

\* StockService._mock_history: a random walk from the code's base price
stock_mock_history(code, start_date, end_date, draw) ==
    IF code \notin MOCK_STOCKS THEN <<>>
    ELSE LET ds == SortedSeq(TradingDays(start_date, end_date))
         IN  [i \in 1..Len(ds) |->
                 [date |-> ds[i], close |-> 72000 + 100 * draw + ds[i]]]

\* StockService._real_history: the frame of the feed, which has a bar for
\* every trading day; the mock history when the frame is empty or the
\* call raised
stock_real_history(code, start_date, end_date, outcome, draw) ==
    LET frame == TradingDays(start_date, end_date) \cap UsdDays
        ds == SortedSeq(frame)
    IN  IF outcome = "raise" \/ frame = {}
        THEN stock_mock_history(code, start_date, end_date, draw)
        ELSE [i \in 1..Len(ds) |->
                 [date |-> ds[i],
                  close |-> ProviderClose("financedatareader", ds[i])]]

\* StockService.get_history
stock_get_history(code, start_date, end_date, outcome, draw) ==
    IF use_mock THEN stock_mock_history(code, start_date, end_date, draw)
    ELSE stock_real_history(code, start_date, end_date, outcome, draw)

\* ExchangeService._mock_history: a random walk from the base rate
exchange_mock_history(start_date, end_date, draw) ==
    LET ds == SortedSeq(TradingDays(start_date, end_date))
    IN  [i \in 1..Len(ds) |-> [date |-> ds[i], close |-> 1200 + 10 * draw]]

\* ExchangeService._real_history: the frame of the USD/KRW feed; the mock
\* history when the frame is empty or the call raised
exchange_real_history(start_date, end_date, outcome, draw) ==
    LET frame == {d \in fx_feed : start_date <= d /\ d <= end_date}
        ds == SortedSeq(frame)
    IN  IF outcome = "raise" \/ frame = {}
        THEN exchange_mock_history(start_date, end_date, draw)
        ELSE [i \in 1..Len(ds) |-> [date |-> ds[i], close |-> RateOn(ds[i])]]

\* ExchangeService.get_history
exchange_get_history(start_date, end_date, outcome, draw) ==
    IF use_mock THEN exchange_mock_history(start_date, end_date, draw)
    ELSE exchange_real_history(start_date, end_date, outcome, draw)

\* the rate of a stock day: that of the day, else of the nearest of the
\* 4 days before it that the map has, else None
lookup_exchange_rate(exchange_map, d) ==
    IF d \in DOMAIN exchange_map THEN Some(exchange_map[d])
    ELSE LET back == {i \in 1..FX_CARRY_DAYS : d - i \in DOMAIN exchange_map}
         IN  IF back = {} THEN None
             ELSE Some(exchange_map[d - Min(back)])

\* UsdConverterService.get_usd_converted_history: None, or the rows
get_usd_converted_history(code, start_date, end_date, stock_outcome, fx_outcome, draw) ==
    IF IsNone(get_stock_info(code)) THEN None
    ELSE
    LET stock_history == stock_get_history(code, start_date, end_date,
                                           stock_outcome, draw)
        exchange_history == exchange_get_history(start_date, end_date,
                                                 fx_outcome, draw)
        exchange_map ==
            [d \in {exchange_history[i].date : i \in 1..Len(exchange_history)}
                |-> (CHOOSE x \in {exchange_history[i] :
                                      i \in 1..Len(exchange_history)} :
                         x.date = d).close]
        converted(stock_day) ==
            ~IsNone(lookup_exchange_rate(exchange_map, stock_day.date))
        kept == SelectSeq(stock_history, converted)
    IN  IF stock_history = <<>> THEN None
        ELSE Some([i \in 1..Len(kept) |->
                 LET exchange_rate ==
                         Val(lookup_exchange_rate(exchange_map, kept[i].date))
                 IN  [date |-> kept[i].date,
                      krw_close |-> kept[i].close,
                      exchange_rate |-> exchange_rate,
                      usd_close |-> close_price_usd(kept[i].close,
                                                    exchange_rate)]])

\* GET /{code}/usd: one call of get_usd_converted_history, with the state
\* of the random generator at the call.  No feed is called with use_mock
\* or for an unknown code.
get_stock_usd_history ==
    \E code \in Codes, start \in UsdDays, end \in UsdDays,
       stock_outcome \in Outcomes, fx_outcome \in Outcomes, draw \in Draws :
        /\ start <= end
        /\ (use_mock \/ code \notin MOCK_STOCKS)
               => (stock_outcome = "ok" /\ fx_outcome = "ok")
        /\ LET call == [code |-> code, start |-> start, end |-> end,
                        stock_outcome |-> stock_outcome,
                        fx_outcome |-> fx_outcome,
                        history |-> get_usd_converted_history(
                                        code, start, end, stock_outcome,
                                        fx_outcome, draw)]
               last == usd_calls[Len(usd_calls)]
           IN  usd_calls' =
                   IF usd_calls # <<>> /\ last.code = code
                      /\ last.start = start /\ last.end = end
                   THEN <<last, call>> ELSE <<call>>
        /\ UNCHANGED <<use_mock, fx_feed, syncvars, cachevars, jobvars,
                       schedvars>>

\* the backend with either setting of use_mock and any USD/KRW feed
UsdInit ==
    /\ today = StartDay
    /\ stocks = {}
    /\ stock_prices = EmptyBag
    /\ sync_status = <<>>
    /\ exchange_rates = {}
    /\ pc = [p \in SeqCallers |-> "idle"]
    /\ locals = [p \in SeqCallers |-> NoLocals]
    /\ returned = None
    /\ lastOk = None
    /\ calls_left = 0
    /\ use_mock \in BOOLEAN
    /\ fx_feed \in SUBSET {d \in UsdDays : weekday(d) < 5}
    /\ usd_calls = <<>>
    /\ CacheIdle
    /\ JobIdle
    /\ SchedIdle

UsdNext ==
    \/ get_stock_usd_history

UsdSpec == UsdInit /\ [][UsdNext]_vars

\* the calls that read both feeds and were answered by both
FeedCalls ==
    {c \in {usd_calls[i] : i \in 1..Len(usd_calls)} :
        /\ ~use_mock /\ c.code \in MOCK_STOCKS
        /\ c.stock_outcome = "ok" /\ c.fx_outcome = "ok"
        /\ ~IsNone(c.history)}

\* the days of the USD/KRW feed a bar of day d may be converted with
RecentFeed(d) == {x \in fx_feed : x <= d /\ x >= d - FX_CARRY_DAYS}

\* C13: the history has a row for a bar of [start, end] exactly when the
\* USD/KRW feed has a rate for the bar's day or one of the 4 days before
\* it, days before start included, and the row uses the latest such rate.
C13_RowIffRecentRate ==
    \A c \in FeedCalls :
        LET rows == Val(c.history)
            bars == TradingDays(c.start, c.end) \cap UsdDays
        IN  /\ {rows[i].date : i \in 1..Len(rows)}
                   = {d \in bars : RecentFeed(d) # {}}
            /\ \A i \in 1..Len(rows) :
                   /\ RecentFeed(rows[i].date) # {}
                   /\ rows[i].exchange_rate
                          = RateOn(Max(RecentFeed(rows[i].date)))

\* C14: two consecutive calls with the same arguments and no write in
\* between return identical sequences of rows, whatever the feeds do
\* during the calls.
C14_SameCallSameRows ==
    Len(usd_calls) = 2 => usd_calls[1].history = usd_calls[2].history

\* ======================================================================
\* Part 3: the active-symbol cache and the realtime update job
\* ======================================================================

\* ------------------------------------------------------------------ bounds
\* advances of the clock of the API process
MaxTicks == 3
\* executions of realtime_update_job the triggers start
MaxRuns == 2

\* ------------------------------------------------------- program constants
\* ActiveSymbolsCache.ttl, seconds
ttl == 180

\* seconds the clock advances by in one step: the set makes the instants
\* t0 + ttl - 1, t0 + ttl and t0 + ttl + 1 follow a touch at t0
Jumps == {1, ttl - 1}

\* max_age_seconds arguments of get_active_symbols
MaxAges == {None, Some(0), Some(1), Some(ttl)}

\* the synchronisation engine, not running
SyncIdle ==
    /\ today = StartDay
    /\ stocks = {}
    /\ stock_prices = EmptyBag
    /\ sync_status = <<>>
    /\ exchange_rates = {}
    /\ pc = [p \in SeqCallers |-> "idle"]
    /\ locals = [p \in SeqCallers |-> NoLocals]
    /\ returned = None
    /\ lastOk = None
    /\ calls_left = 0

\* ---------------------------------------------- Redis sorted-set commands
\* ZADD key score member: the member's score is replaced
ZADD(zset, member, score) ==
    {e \in zset : e.member # member}
        \cup {[member |-> member, score |-> score]}

\* ZREM key member
ZREM(zset, member) == {e \in zset : e.member # member}

\* ZRANGEBYSCORE key min +inf: both ends inclusive
ZRANGEBYSCORE(zset, min) == {e.member : e \in {x \in zset : x.score >= min}}

\* ZREMRANGEBYSCORE key -inf max: both ends inclusive; the set that is left
ZREMRANGEBYSCORE(zset, max) == {e \in zset : ~(e.score <= max)}

\* ZSCORE key member
ZSCORE(zset, member) ==
    IF \E e \in zset : e.member = member
    THEN Some((CHOOSE e \in zset : e.member = member).score)
    ELSE None

\* ------------------------------------------------------ ActiveSymbolsCache
\* add without the upper-casing of the member
add_raw(zset, symbol, t) == ZADD(zset, symbol, t)

add(zset, symbol, t) == ZADD(zset, upper(symbol), t)

remove(zset, symbol) == ZREM(zset, upper(symbol))

\* get_active_symbols that ignores its argument
get_active_symbols_ttl(zset, max_age_seconds, t) ==
    ZRANGEBYSCORE(zset, t - ttl)

get_active_symbols(zset, max_age_seconds, t) ==
    LET max_age == IF IsNone(max_age_seconds) THEN ttl
                   ELSE Val(max_age_seconds)
        min_score == t - max_age
    IN  ZRANGEBYSCORE(zset, min_score)

\* cleanup_stale that evicts the oldest entries when none is stale
cleanup_stale_evict(zset, t) ==
    LET left == ZREMRANGEBYSCORE(zset, t - ttl)
    IN  IF left # zset THEN left
        ELSE {e \in zset : \E x \in zset : x.score < e.score}

\* the sorted set cleanup_stale leaves; it returns the number of entries
\* it removed
cleanup_stale(zset, t) ==
    LET cutoff == t - ttl
    IN  ZREMRANGEBYSCORE(zset, cutoff)

is_active(zset, symbol, t) ==
    LET min_score == t - ttl
        score == ZSCORE(zset, upper(symbol))
    IN  IF IsNone(score) THEN FALSE ELSE Val(score) >= min_score

\* --------------------------------------------------- calls of the cache
\* the symbols whose entries are in zset
SymbolsOf(zset) == {upper(e.member) : e \in zset}

\* a touch of symbol at time now, leaving the sorted set as after
Touched(symbol, after) ==
    /\ active_symbols' = after
    /\ touch_log' = [touch_log EXCEPT ![upper(symbol)] = Some(now)]
    /\ purged_at' = None
    /\ cache_ret' = [NoCacheCall EXCEPT !.op = "add",
                                        !.symbol = upper(symbol),
                                        !.at = now]
    /\ UNCHANGED <<now, ticks_left>>

\* a cleanup_stale at time now
Purged ==
    LET after == cleanup_stale(active_symbols, now)
        gone == SymbolsOf(active_symbols \ after)
    IN  /\ active_symbols' = after
        /\ touch_log' = [s \in Symbols |->
                            IF s \in gone THEN None ELSE touch_log[s]]
        /\ purged_at' = Some(now)
        /\ cache_ret' = [NoCacheCall EXCEPT
                            !.op = "cleanup_stale",
                            !.at = now,
                            !.members = get_active_symbols(active_symbols,
                                                           None, now),
                            !.removed = {e.member :
                                            e \in active_symbols \ after},
                            !.again = (purged_at = Some(now))]
        /\ UNCHANGED <<now, ticks_left>>

\* the clock of the API process advances
Advance ==
    \E dt \in Jumps :
        /\ ticks_left > 0
        /\ now' = now + dt
        /\ ticks_left' = ticks_left - 1
        /\ UNCHANGED <<active_symbols, touch_log, purged_at, cache_ret>>
        /\ UNCHANGED <<schedvars, syncvars, usdvars, jobvars>>

\* register_active_symbol(symbol): a read path that serves symbol
register_active_symbol ==
    \E symbol \in RawSymbols :
        /\ Touched(symbol, add(active_symbols, upper(symbol), now))
        /\ UNCHANGED <<schedvars, syncvars, usdvars, jobvars>>

\* ActiveSymbolsCache.refresh(symbol)
refresh ==
    \E symbol \in RawSymbols :
        /\ Touched(symbol, add(active_symbols, symbol, now))
        /\ UNCHANGED <<schedvars, syncvars, usdvars, jobvars>>

\* unregister_active_symbol(symbol)
unregister_active_symbol ==
    \E symbol \in RawSymbols :
        /\ active_symbols' = remove(active_symbols, upper(symbol))
        /\ touch_log' = [touch_log EXCEPT ![upper(symbol)] = None]
        /\ cache_ret' = [NoCacheCall EXCEPT !.op = "remove",
                                            !.symbol = upper(symbol),
                                            !.at = now]
        /\ UNCHANGED <<now, ticks_left, purged_at>>
        /\ UNCHANGED <<schedvars, syncvars, usdvars, jobvars>>

\* a call of ActiveSymbolsCache.get_active_symbols(max_age_seconds)
call_get_active_symbols ==
    \E max_age_seconds \in MaxAges :
        /\ cache_ret' = [NoCacheCall EXCEPT
                            !.op = "get_active_symbols",
                            !.max_age = max_age_seconds,
                            !.at = now,
                            !.members = get_active_symbols(
                                active_symbols, max_age_seconds, now)]
        /\ UNCHANGED <<now, ticks_left, active_symbols, touch_log,
                       purged_at>>
        /\ UNCHANGED <<schedvars, syncvars, usdvars, jobvars>>

\* a call of ActiveSymbolsCache.is_active(symbol)
call_is_active ==
    \E symbol \in RawSymbols :
        /\ cache_ret' = [NoCacheCall EXCEPT
                            !.op = "is_active",
                            !.symbol = upper(symbol),
                            !.at = now,
                            !.active = is_active(active_symbols, symbol,
                                                 now)]
        /\ UNCHANGED <<now, ticks_left, active_symbols, touch_log,
                       purged_at>>
        /\ UNCHANGED <<schedvars, syncvars, usdvars, jobvars>>

\* a call of ActiveSymbolsCache.cleanup_stale()
call_cleanup_stale ==
    /\ Purged
    /\ UNCHANGED <<schedvars, syncvars, usdvars, jobvars>>

CacheInit ==
    /\ SyncIdle
    /\ UsdIdle
    /\ JobIdle
    /\ SchedIdle
    /\ now = 0
    /\ ticks_left = MaxTicks
    /\ active_symbols = {}
    /\ touch_log = [s \in Symbols |-> None]
    /\ purged_at = None
    /\ cache_ret = NoCacheCall

CacheNext ==
    \/ Advance
    \/ register_active_symbol
    \/ refresh
    \/ unregister_active_symbol
    \/ call_get_active_symbols
    \/ call_is_active
    \/ call_cleanup_stale

CacheSpec == CacheInit /\ [][CacheNext]_vars

\* ------------------------------------------------- active-symbol claims
\* C15: whatever touches, removals and purges came before,
\* get_active_symbols(max_age) called at time t returns exactly the symbols
\* whose latest touch was at t - max_age or later and that were not taken
\* out of the set since that touch (by remove or by cleanup_stale); so it
\* returns no symbol that was not touched within the last max_age seconds.
C15_ActiveIsRecentTouches ==
    cache_ret.op = "get_active_symbols" =>
        LET max_age == IF IsNone(cache_ret.max_age) THEN ttl
                       ELSE Val(cache_ret.max_age)
        IN  cache_ret.members =
                {s \in Symbols :
                    /\ ~IsNone(touch_log[s])
                    /\ Val(touch_log[s]) >= cache_ret.at - max_age}

\* a call with max_age 1 returned one symbol and left out another one
\* that is in the set
C15_Witness ==
    /\ cache_ret.op = "get_active_symbols"
    /\ cache_ret.max_age = Some(1)
    /\ cache_ret.members # {}
    /\ \E e \in active_symbols : e.member \notin cache_ret.members

\* C16: cleanup_stale is idempotent: a call made at the instant of the
\* call before it, no touch in between, removes nothing and leaves the
\* sorted set as that call left it; and wherever a call was made at this
\* instant with no touch since, one more call would change nothing.
C16_PurgeIdempotent ==
    /\ (cache_ret.op = "cleanup_stale" /\ cache_ret.again)
           => cache_ret.removed = {}
    /\ purged_at = Some(now)
           => cleanup_stale(active_symbols, now) = active_symbols

\* a second call at the same instant, late enough for entries to be stale,
\* while entries are left in the set
C16_Witness ==
    /\ cache_ret.op = "cleanup_stale"
    /\ cache_ret.again
    /\ cache_ret.at > ttl
    /\ active_symbols # {}
    /\ \E s \in Symbols : IsNone(touch_log[s])

\* C17: cleanup_stale called at time t removes exactly the members with
\* score < t - ttl: it removes no member get_active_symbols() returns at
\* that instant and keeps exactly those members, so that a symbol touched
\* at t0 is kept up to and including t0 + ttl; and is_active(symbol) at
\* time t is true exactly for a symbol touched at t - ttl or later and not
\* taken out since.
C17_PurgeAgreesWithActive ==
    /\ cache_ret.op = "cleanup_stale" =>
           /\ cache_ret.removed \cap cache_ret.members = {}
           /\ {e.member : e \in active_symbols} = cache_ret.members
    /\ cache_ret.op = "is_active" =>
           cache_ret.active =
               (/\ ~IsNone(touch_log[cache_ret.symbol])
                /\ Val(touch_log[cache_ret.symbol]) >= cache_ret.at - ttl)

\* at most one entry per upper-cased symbol, its score the time of the
\* symbol's latest touch; the symbol touched last is in get_active_symbols()
OneEntryPerSymbol ==
    /\ \A e1 \in active_symbols, e2 \in active_symbols :
           upper(e1.member) = upper(e2.member) => e1 = e2
    /\ \A e \in active_symbols :
           touch_log[upper(e.member)] = Some(e.score)
    /\ (cache_ret.op = "add" /\ cache_ret.at = now)
           => cache_ret.symbol
                  \in get_active_symbols(active_symbols, None, now)

\* no step lowers the score of a member that stays in the set
ScoresNeverLowered ==
    \A e1 \in active_symbols, e2 \in active_symbols' :
        upper(e1.member) = upper(e2.member) => e2.score >= e1.score

\* C18: after touches in any letter case the sorted set holds at most one
\* entry per upper-cased symbol, scored with the time of the symbol's latest
\* touch; a touch leaves the symbol in get_active_symbols(), and with the
\* clock never going back no touch lowers a score.
C18_OneEntryLatestTouch ==
    []OneEntryPerSymbol /\ [][ScoresNeverLowered]_vars

\* AAA was touched again after the clock advanced, BBB staying in the set
C18_Witness ==
    /\ cache_ret.op = "add"
    /\ cache_ret.symbol = "AAA"
    /\ [member |-> "AAA", score |-> now] \in active_symbols
    /\ now > 0
    /\ \E e \in active_symbols : e.member = "BBB" /\ e.score < now

\* ------------------------------------------------- realtime update job
\* settings.scheduler_max_batch_size
scheduler_max_batch_size == 20
\* job_defaults of the scheduler: executions of one job running at a time
max_instances == 1
\* last index add_run_history keeps of the run history (LTRIM 0 99)
LTRIM_STOP == 99

\* MarketStatus: what get_market_status() computes from the clock at the
\* moment it is called
MarketStatuses == {"market_closed", "pre_market", "market_open",
                   "after_hours"}

\* MarketHoursInfo.is_trading_time as get_market_status sets it
is_trading_time(status) == status \in {"market_open", "after_hours"}

\* the update that never skips
should_update_realtime_always(status) == TRUE

should_update_realtime(status) == is_trading_time(status)

\* what the USD/KRW sources answer: the first one that does, or none
FxOutcomes == {"yfinance", "eximbank", "raise"}

\* active_symbols[:max_batch], the order within the list left open
FirstOf(symbols, n) ==
    IF Cardinality(symbols) <= n THEN symbols
    ELSE CHOOSE b \in SUBSET symbols : Cardinality(b) = n

\* LPUSH of a record, then LTRIM 0 LTRIM_STOP
lpush_ltrim(history, rec) ==
    LET pushed == <<rec>> \o history
    IN  IF Len(pushed) <= LTRIM_STOP + 1 THEN pushed
        ELSE SubSeq(pushed, 1, LTRIM_STOP + 1)

\* the executions of realtime_update_job in progress
Running == {t \in Triggers : jobs[t].pc # "idle"}

\* an execution of realtime_update_job starts: job_start = datetime.now()
StartJob(t) ==
    /\ runs_left > 0
    /\ runs_left' = runs_left - 1
    /\ jobs' = [jobs EXCEPT ![t] = [NoTick EXCEPT !.pc = "market",
                                                  !.job_start = now]]
    /\ UNCHANGED <<market_status_cache, fx_cache, realtime_prices,
                   run_history, scheduler_state, job_ret>>
    /\ UNCHANGED <<schedvars, syncvars, usdvars, cachevars>>

\* the interval trigger fires; the scheduler starts the job unless
\* max_instances executions it started are running
interval_trigger ==
    /\ scheduler = "running"
    /\ Cardinality(Running \cap {"interval"}) < max_instances
    /\ StartJob("interval")

\* POST /scheduler/trigger: trigger_manual_update awaits
\* realtime_update_job() itself (one such request at a time)
trigger_manual_update ==
    /\ "manual" \notin Running
    /\ StartJob("manual")

\* 1. update_market_status
update_market_status(t) ==
    /\ jobs[t].pc = "market"
    /\ \E market \in MarketStatuses :
           /\ market_status_cache' = Some([status |-> market,
                                           updated_at |-> now])
           /\ jobs' = [jobs EXCEPT
                          ![t].pc = "stocks",
                          ![t].market_result =
                              Some([status |-> market,
                                    is_trading_time |->
                                        is_trading_time(market)])]
    /\ UNCHANGED <<fx_cache, realtime_prices, run_history,
                   scheduler_state, job_ret, runs_left>>
    /\ UNCHANGED <<schedvars, syncvars, usdvars, cachevars>>

\* 2. update_active_stocks: skipped outside trading time; otherwise the
\* quotes of the active symbols are fetched (answered: the symbols a source
\* had a quote for) and the ones fetched are written to the realtime cache
update_active_stocks(t) ==
    /\ jobs[t].pc = "stocks"
    /\ \E market \in MarketStatuses :
         IF ~should_update_realtime(market)
         THEN /\ jobs' = [jobs EXCEPT
                             ![t].pc = "exchange",
                             ![t].trading = is_trading_time(market),
                             ![t].stock_result =
                                 Some([skipped |-> TRUE,
                                       stocks_updated |-> 0])]
              /\ UNCHANGED <<realtime_prices, cache_ret>>
         ELSE LET active == get_active_symbols(active_symbols, None, now)
                  symbols_to_update ==
                      FirstOf(active, scheduler_max_batch_size)
              IN  /\ cache_ret' = [NoCacheCall EXCEPT
                                      !.op = "get_active_symbols",
                                      !.at = now,
                                      !.members = active]
                  /\ \E answered \in SUBSET symbols_to_update :
                         /\ realtime_prices' =
                                realtime_prices \cup answered
                         /\ jobs' = [jobs EXCEPT
                                 ![t].pc = "exchange",
                                 ![t].trading = is_trading_time(market),
                                 ![t].fetched = symbols_to_update,
                                 ![t].written = answered,
                                 ![t].stock_result =
                                     Some([skipped |-> FALSE,
                                           stocks_updated |->
                                               Cardinality(answered)])]
    /\ UNCHANGED <<now, ticks_left, active_symbols, touch_log, purged_at>>
    /\ UNCHANGED <<market_status_cache, fx_cache, run_history,
                   scheduler_state, job_ret, runs_left>>
    /\ UNCHANGED <<schedvars, syncvars, usdvars>>

\* 3. update_exchange_rate: get_current_rate(force_refresh=True) caches the
\* rate of the first source that answers; when none does it raises, and the
\* job records the failed run
update_exchange_rate(t) ==
    /\ jobs[t].pc = "exchange"
    /\ \E outcome \in FxOutcomes :
           IF outcome # "raise"
           THEN /\ fx_cache' = Some([source |-> outcome, updated_at |-> now])
                /\ jobs' = [jobs EXCEPT
                               ![t].pc = "cleanup",
                               ![t].exchange_result = Some(outcome)]
                /\ UNCHANGED <<run_history, job_ret>>
           ELSE LET rec == [run_time |-> jobs[t].job_start,
                            duration_ms |-> (now - jobs[t].job_start) * 1000,
                            stocks_count |-> 0,
                            success |-> FALSE,
                            error |-> TRUE]
                IN  /\ run_history' = lpush_ltrim(run_history, rec)
                    /\ job_ret' = Some([jobs[t] EXCEPT
                                            !.pc = "done",
                                            !.record = Some(rec)])
                    /\ jobs' = [jobs EXCEPT ![t] = NoTick]
                    /\ UNCHANGED fx_cache
    /\ UNCHANGED <<market_status_cache, realtime_prices,
                   scheduler_state, runs_left>>
    /\ UNCHANGED <<schedvars, syncvars, usdvars, cachevars>>

\* 4. cleanup_stale_symbols
cleanup_stale_symbols(t) ==
    /\ jobs[t].pc = "cleanup"
    /\ Purged
    /\ jobs' = [jobs EXCEPT ![t].pc = "record"]
    /\ UNCHANGED <<market_status_cache, fx_cache, realtime_prices,
                   run_history, scheduler_state, job_ret, runs_left>>
    /\ UNCHANGED <<schedvars, syncvars, usdvars>>

\* the run is recorded: add_run_history, then set_state
add_run_history(t) ==
    /\ jobs[t].pc = "record"
    /\ LET stocks_updated == Val(jobs[t].stock_result).stocks_updated
           rec == [run_time |-> jobs[t].job_start,
                   duration_ms |-> (now - jobs[t].job_start) * 1000,
                   stocks_count |-> stocks_updated,
                   success |-> TRUE,
                   error |-> FALSE]
       IN  /\ run_history' = lpush_ltrim(run_history, rec)
           /\ scheduler_state' = Some([is_running |-> TRUE,
                                       last_run_at |-> jobs[t].job_start,
                                       stocks_updated |-> stocks_updated,
                                       exchange_updated |-> TRUE])
           /\ job_ret' = Some([jobs[t] EXCEPT !.pc = "done",
                                               !.record = Some(rec)])
           /\ jobs' = [jobs EXCEPT ![t] = NoTick]
    /\ UNCHANGED <<market_status_cache, fx_cache, realtime_prices,
                   runs_left>>
    /\ UNCHANGED <<schedvars, syncvars, usdvars, cachevars>>

\* one step of an execution of realtime_update_job
realtime_update_job(t) ==
    \/ update_market_status(t)
    \/ update_active_stocks(t)
    \/ update_exchange_rate(t)
    \/ cleanup_stale_symbols(t)
    \/ add_run_history(t)

\* the job runs at time 0 over the symbols touched at that instant
JobInit ==
    /\ SyncIdle
    /\ UsdIdle
    /\ SchedIdle
    /\ now = 0
    /\ ticks_left = 0
    /\ \E touched \in SUBSET Symbols :
           /\ active_symbols = {[member |-> m, score |-> 0] : m \in touched}
           /\ touch_log = [s \in Symbols |->
                               IF s \in touched THEN Some(0) ELSE None]
    /\ purged_at = None
    /\ cache_ret = NoCacheCall
    /\ market_status_cache = None
    /\ fx_cache = None
    /\ realtime_prices = {}
    /\ run_history = <<>>
    /\ scheduler_state = None
    /\ jobs = [t \in Triggers |-> NoTick]
    /\ job_ret = None
    /\ runs_left = MaxRuns

JobNext ==
    \/ interval_trigger
    \/ trigger_manual_update
    \/ \E t \in Triggers : realtime_update_job(t)

JobSpec == JobInit /\ [][JobNext]_vars

\* ------------------------------------------------------------ job claims
\* the executions that ended and found the market outside trading time
\* when they came to the stock update
ClosedTicks ==
    {r \in {job_ret[i] : i \in 1..Len(job_ret)} : ~r.trading}

C20_NoOverlap == Cardinality(Running) <= 1

\* the order of the steps of a tick
StepOrder ==
    {<<"idle", "market">>, <<"market", "stocks">>, <<"stocks", "exchange">>,
     <<"exchange", "cleanup">>, <<"cleanup", "record">>,
     <<"record", "idle">>}

\* C34: the steps of a tick run in the order market-status write, quote
\* refresh, FX refresh, purge of the stale active symbols, run-record
\* append, and the FX refresh and the purge run in every tick: a tick
\* ends only after its purge and its record, and the purge of a tick that
\* ended was run at the time of the tick.
C34_FxAndPurgeInEveryTick ==
    [][\A t \in Triggers :
           jobs'[t].pc # jobs[t].pc
               => /\ <<jobs[t].pc, jobs'[t].pc>> \in StepOrder
                  /\ jobs'[t].pc = "idle" => purged_at = Some(now)]_vars

\* ======================================================================
\* Part 4: the market calendar, the daily batch job, the scheduler under
\* faults and the run histories
\* ======================================================================

\* --------------------------------------------------------------- calendar
\* A KST time is a day number and the seconds since midnight of that day.
\* the last day a status is asked for (day 0 is a Monday, so is day 14)
LastCalendarDay == 14

CalendarDays == 0..LastCalendarDay

\* datetime.time(hour, minute)
time(hour, minute) == hour * 3600 + minute * 60

MARKET_OPEN_TIME == time(9, 0)
MARKET_CLOSE_TIME == time(15, 30)
AFTER_HOURS_END == time(16, 0)
PRE_MARKET_START == time(8, 30)

\* the first second of a day and the last
DayStart == time(0, 0)
DayEnd == time(24, 0) - 1

\* the times of day a status is asked at: each boundary of a phase, the
\* second before it and the second after it, and the ends of the day
CheckTimes ==
    {DayStart, DayEnd}
        \cup UNION {{b - 1, b, b + 1} :
                       b \in {PRE_MARKET_START, MARKET_OPEN_TIME,
                              MARKET_CLOSE_TIME, AFTER_HOURS_END}}

\* the holiday table KRX_HOLIDAYS: here a Tuesday and a Saturday
KRX_HOLIDAYS == {8, 12}

is_holiday(check_date) == check_date \in KRX_HOLIDAYS

is_trading_day(check_date) ==
    ~is_weekend(check_date) /\ ~is_holiday(check_date)

RECURSIVE NextTradingFrom(_)
NextTradingFrom(next_day) ==
    IF is_trading_day(next_day) THEN next_day
    ELSE NextTradingFrom(next_day + 1)

get_next_trading_day(from_date) == NextTradingFrom(from_date + 1)

\* lo <= current_time <= hi, the phase closed at its end
within_late(lo, current_time, hi) == lo < current_time /\ current_time <= hi

\* lo <= current_time < hi
within(lo, current_time, hi) == lo <= current_time /\ current_time < hi

\* get_market_status(check_time), check_time = <<current_date, current_time>>
get_market_status(current_date, current_time) ==
    LET today_open == <<current_date, MARKET_OPEN_TIME>>
        today_close == <<current_date, MARKET_CLOSE_TIME>>
        next_open == <<get_next_trading_day(current_date), MARKET_OPEN_TIME>>
        info == [status |-> "market_closed", is_trading_time |-> FALSE,
                 current_time_kst |-> <<current_date, current_time>>,
                 market_open_at |-> None, market_close_at |-> None,
                 next_open_at |-> Some(next_open)]
    IN  IF ~is_trading_day(current_date) THEN info
        ELSE IF within(PRE_MARKET_START, current_time, MARKET_OPEN_TIME)
        THEN [info EXCEPT !.status = "pre_market",
                          !.market_open_at = Some(today_open),
                          !.market_close_at = Some(today_close),
                          !.next_open_at = Some(today_open)]
        ELSE IF within(MARKET_OPEN_TIME, current_time, MARKET_CLOSE_TIME)
        THEN [info EXCEPT !.status = "market_open",
                          !.is_trading_time = TRUE,
                          !.market_open_at = Some(today_open),
                          !.market_close_at = Some(today_close),
                          !.next_open_at = None]
        ELSE IF within(MARKET_CLOSE_TIME, current_time, AFTER_HOURS_END)
        THEN [info EXCEPT !.status = "after_hours",
                          !.is_trading_time = TRUE,
                          !.market_open_at = Some(today_open),
                          !.market_close_at = Some(today_close)]
        ELSE IF current_time >= AFTER_HOURS_END THEN info
        ELSE [info EXCEPT !.next_open_at = Some(today_open)]

\* a call of get_market_status(check_time)
call_get_market_status ==
    \E current_date \in CalendarDays, current_time \in CheckTimes :
        /\ market_ret' = Some(get_market_status(current_date, current_time))
        /\ UNCHANGED <<batchvars, histvars, quotevars>>
        /\ UNCHANGED <<syncvars, usdvars, cachevars, jobvars>>

CalendarInit ==
    /\ SyncIdle
    /\ UsdIdle
    /\ CacheIdle
    /\ JobIdle
    /\ SchedIdle

CalendarNext ==
    \/ call_get_market_status

CalendarSpec == CalendarInit /\ [][CalendarNext]_vars

\* the phase of the market at a KST time, by the table of phases
Phase(current_date, current_time) ==
    IF weekday(current_date) \in {5, 6} \/ current_date \in KRX_HOLIDAYS
    THEN "market_closed"
    ELSE IF current_time >= time(8, 30) /\ current_time < time(9, 0)
    THEN "pre_market"
    ELSE IF current_time >= time(9, 0) /\ current_time < time(15, 30)
    THEN "market_open"
    ELSE IF current_time >= time(15, 30) /\ current_time < time(16, 0)
    THEN "after_hours"
    ELSE "market_closed"

\* C22: get_market_status(t) is the phase of the table for every KST time
\* t: on a trading day pre_market in [08:30, 09:00), market_open in
\* [09:00, 15:30), after_hours in [15:30, 16:00), market_closed otherwise;
\* market_closed all day on Saturday, Sunday and a holiday; and
\* is_trading_time is true exactly for market_open and after_hours.
C22_StatusIsPhase ==
    \A r \in {market_ret[i] : i \in 1..Len(market_ret)} :
        /\ r.status = Phase(r.current_time_kst[1], r.current_time_kst[2])
        /\ r.is_trading_time = (r.status \in {"market_open", "after_hours"})

\* the status was asked at 15:30:00 of a trading day and is after_hours
C22_Witness ==
    /\ ~IsNone(market_ret)
    /\ Val(market_ret).current_time_kst[2] = time(15, 30)
    /\ Val(market_ret).status = "after_hours"
    /\ Val(market_ret).is_trading_time

\* ------------------------------------------------------- daily batch job
\* A behaviour follows one run of the batch job, started by the cron
\* trigger (daily_batch_update_job) or by a request
\* (trigger_daily_batch_update); both await run_with_retry().  The run
\* starts on a fresh store or on what an earlier run left there.

DEFAULT_MARKET_CAP_TOP == 100
DEFAULT_VOLUME_TOP == 50
MAX_RETRY_ATTEMPTS == 3
BATCH_SIZE == 10
\* market_cap_stocks[:20], volume_stocks[:20]
POPULAR_TOP == 20
\* LTRIM history_key 0 29
BATCH_LTRIM_STOP == 29

RANKING_TYPES == {"volume", "value", "gain", "loss"}

\* the days a run starts on: a holiday on a weekday, a Friday, a Saturday
BatchDays == {8, 11, 12}

\* the rankings a listing can give: the symbols in some order, no repeats
Rankings ==
    {r \in UNION {[1..n -> Symbols] : n \in 0..Cardinality(Symbols)} :
        \A i, j \in DOMAIN r : i # j => r[i] # r[j]}

\* seq[:n] without the cap
take_all(seq, n) == seq

\* seq[:n]
take(seq, n) == SubSeq(seq, 1, Min({n, Len(seq)}))

\* the elements of a list
Elems(seq) == {seq[i] : i \in DOMAIN seq}

\* the elements of a list that are in a set, in the order of the list
RECURSIVE Filter(_, _)
Filter(seq, keep) ==
    IF seq = <<>> THEN <<>>
    ELSE IF Head(seq) \in keep THEN <<Head(seq)>> \o Filter(Tail(seq), keep)
    ELSE Filter(Tail(seq), keep)

\* RPUSH key record
RPUSH(list, rec) == list \o <<rec>>

\* LPUSH key record
LPUSH(list, rec) == <<rec>> \o list

\* LTRIM key start stop
LTRIM(list, start, stop) == SubSeq(list, start + 1, Min({stop + 1, Len(list)}))

\* BatchUpdateStateCache.set_state: the key is overwritten
batch_set_state(status, target_date, progress, result, error) ==
    Some([status |-> status, target_date |-> target_date,
          progress |-> progress, result |-> result, error |-> error])

\* BatchUpdateStateCache.add_history that pushes nothing
batch_add_history_none(history, rec) == history

\* BatchUpdateStateCache.add_history
batch_add_history(history, rec) ==
    LTRIM(LPUSH(history, rec), 0, BATCH_LTRIM_STOP)

\* PopularStocksCache.set: _make_key raises ValueError for a ranking type
\* that is not one of RANKING_TYPES
popular_set(cache, ranking_type, data) ==
    IF ranking_type \notin RANKING_TYPES
    THEN [raised |-> TRUE, cache |-> cache]
    ELSE [raised |-> FALSE,
          cache |-> {e \in cache : e.ranking_type # ranking_type}
                        \cup {[ranking_type |-> ranking_type,
                               stocks |-> data]}]

\* PopularStocksCache.get
popular_get(cache, ranking_type) ==
    IF \E e \in cache : e.ranking_type = ranking_type
    THEN Some((CHOOSE e \in cache : e.ranking_type = ranking_type).stocks)
    ELSE None

\* run_with_retry, except handler: attempt < max_attempts
should_retry_always(attempt) == TRUE

should_retry(attempt) == attempt < MAX_RETRY_ATTEMPTS

\* run_batch_update, the trading day check that runs everything: weekends only
is_batch_day_weekday(check_date) == ~is_weekend(check_date)

\* run_batch_update, the trading day check
is_batch_day(check_date) == is_trading_day(check_date)

\* the batch job is between the start of run_with_retry and its end
InBatch == batch.pc \notin {"idle", "cancelled"}

\* run_with_retry returns: the run is over
FinishBatch(b, kind) ==
    /\ batch_ret' = Some([b EXCEPT !.pc = kind])
    /\ batch' = NoBatch

\* run_batch_update raised into the loop of run_with_retry
AfterRaise(b) ==
    IF should_retry(b.attempt)
    THEN /\ batch' = [b EXCEPT !.pc = "sleeping", !.slept = @ + 1]
         /\ UNCHANGED batch_ret
    ELSE FinishBatch(b, "exhausted")

\* run_with_retry() is awaited: by daily_batch_update_job, which the cron
\* trigger fires, or by trigger_daily_batch_update for a request
run_with_retry ==
    /\ batch.pc = "idle"
    /\ batch_ret = None
    /\ scheduler = "running"
    /\ \E d \in BatchDays :
           batch' = [NoBatch EXCEPT !.pc = "attempt", !.attempt = 1,
                                    !.today = d]
    /\ UNCHANGED <<batch_state, batch_history, popular_stocks_cache,
                   batch_ret, scheduler>>
    /\ UNCHANGED <<calendarvars, histvars, quotevars>>
    /\ UNCHANGED <<syncvars, usdvars, cachevars, jobvars>>

\* run_batch_update up to the try block: the trading day check, then
\* BatchState "running"
run_batch_update ==
    /\ batch.pc = "attempt"
    /\ IF ~is_batch_day(batch.today)
       THEN /\ FinishBatch(batch, "skipped")
            /\ UNCHANGED batch_state
       ELSE \E redis_up \in BOOLEAN :
                IF redis_up
                THEN /\ batch_state' =
                            batch_set_state("running", batch.today,
                                            None, None, None)
                     /\ batch' = [batch EXCEPT !.pc = "discover"]
                     /\ UNCHANGED batch_ret
                ELSE /\ AfterRaise([batch EXCEPT !.store_raised = TRUE])
                     /\ UNCHANGED batch_state
    /\ UNCHANGED <<batch_history, popular_stocks_cache, scheduler>>
    /\ UNCHANGED <<calendarvars, histvars, quotevars>>
    /\ UNCHANGED <<syncvars, usdvars, cachevars, jobvars>>

\* get_popular_stocks and the list of targets
get_popular_stocks ==
    /\ batch.pc = "discover"
    /\ \E ok \in BOOLEAN, by_cap \in Rankings, by_volume \in Rankings :
           LET popular ==
                   IF ok THEN [market_cap |->
                                   take(by_cap, DEFAULT_MARKET_CAP_TOP),
                               volume |->
                                   take(by_volume, DEFAULT_VOLUME_TOP)]
                   ELSE [market_cap |-> <<>>, volume |-> <<>>]
               market_cap_stocks ==
                   take(popular.market_cap, DEFAULT_MARKET_CAP_TOP)
               volume_stocks == take(popular.volume, DEFAULT_VOLUME_TOP)
               all_symbols == Elems(market_cap_stocks \o volume_stocks)
           IN  batch' = [batch EXCEPT
                            !.pc = IF all_symbols = {} THEN "popular"
                                   ELSE "update",
                            !.discovered = TRUE,
                            !.market_cap = market_cap_stocks,
                            !.volume = volume_stocks,
                            !.all_symbols = all_symbols,
                            !.todo = all_symbols]
    /\ UNCHANGED <<batch_state, batch_history, popular_stocks_cache,
                   batch_ret, scheduler>>
    /\ UNCHANGED <<calendarvars, histvars, quotevars>>
    /\ UNCHANGED <<syncvars, usdvars, cachevars, jobvars>>

\* the results of a batch sorted, the failed ones left out
sort_results_drop(b, chunk, raised) ==
    [b EXCEPT !.success = @ \cup (chunk \ raised)]

\* the results of a batch sorted into results["success"] and
\* results["failed"]
sort_results(b, chunk, raised) ==
    [b EXCEPT !.success = @ \cup (chunk \ raised),
              !.failed = @ \cup raised]

\* one batch of BATCH_SIZE targets: _update_single_stock of each, the
\* results sorted into success and failed, the pause, the progress write
process_batch ==
    /\ batch.pc = "update"
    /\ \E chunk \in SUBSET batch.todo :
         \E sync_raises \in SUBSET chunk :
           \E quote_raises \in SUBSET (chunk \ sync_raises) :
             \E redis_up \in BOOLEAN :
               LET failed == sync_raises \cup quote_raises
                   rest == batch.todo \ chunk
                   done == batch.all_symbols \ rest
                   b == sort_results(
                            [batch EXCEPT
                                !.todo = rest,
                                !.synced = @ \cup chunk,
                                !.fetched = @ \/ chunk # sync_raises],
                            chunk, failed)
               IN  /\ Cardinality(chunk) =
                          Min({BATCH_SIZE, Cardinality(batch.todo)})
                   /\ IF redis_up
                      THEN /\ batch_state' =
                                  batch_set_state(
                                      "running", batch.today,
                                      Some(<<Cardinality(done),
                                             Cardinality(batch.all_symbols)>>),
                                      None, None)
                           /\ batch' = [b EXCEPT
                                           !.pc = IF rest = {} THEN "popular"
                                                  ELSE "update"]
                      ELSE /\ batch' = [b EXCEPT !.pc = "handler"]
                           /\ UNCHANGED batch_state
    /\ UNCHANGED <<batch_history, popular_stocks_cache, batch_ret,
                   scheduler>>
    /\ UNCHANGED <<calendarvars, histvars, quotevars>>
    /\ UNCHANGED <<syncvars, usdvars, cachevars, jobvars>>

\* _update_popular_stocks_cache: nothing it raises leaves it
update_popular_stocks_cache ==
    /\ batch.pc = "popular"
    /\ \E priced \in SUBSET Symbols :
           LET market_cap_top == take(batch.market_cap, POPULAR_TOP)
               volume_top == take(batch.volume, POPULAR_TOP)
               market_cap_data == Filter(market_cap_top, priced)
               volume_data == Filter(volume_top, priced)
               first == IF market_cap_data # <<>>
                        THEN popular_set(popular_stocks_cache,
                                         "market_cap", market_cap_data)
                        ELSE [raised |-> FALSE,
                              cache |-> popular_stocks_cache]
               second == IF volume_data # <<>>
                         THEN popular_set(first.cache, "volume", volume_data)
                         ELSE [raised |-> FALSE, cache |-> first.cache]
           IN  /\ popular_stocks_cache' =
                      IF first.raised THEN first.cache ELSE second.cache
               /\ batch' = [batch EXCEPT
                               !.pc = "finish",
                               !.priced = priced,
                               !.fetched =
                                   \/ @
                                   \/ market_cap_top # <<>>
                                   \/ ~first.raised /\ volume_top # <<>>]
    /\ UNCHANGED <<batch_state, batch_history, batch_ret, scheduler>>
    /\ UNCHANGED <<calendarvars, histvars, quotevars>>
    /\ UNCHANGED <<syncvars, usdvars, cachevars, jobvars>>

\* the end of the try block: BatchState "completed", the run record, return
complete_batch ==
    /\ batch.pc = "finish"
    /\ \E state_up \in BOOLEAN, history_up \in BOOLEAN :
           LET result_summary ==
                   [success |-> TRUE, date |-> batch.today,
                    total_stocks |-> Cardinality(batch.all_symbols),
                    market_cap_count |-> Len(batch.market_cap),
                    volume_count |-> Len(batch.volume),
                    updated_count |-> Cardinality(batch.success),
                    failed_count |-> Cardinality(batch.failed)]
               rec == [run_date |-> batch.today,
                       stocks_count |-> Cardinality(batch.all_symbols),
                       success_count |-> Cardinality(batch.success),
                       failed_count |-> Cardinality(batch.failed),
                       success |-> TRUE, error |-> FALSE]
           IN  /\ batch_state' =
                      IF state_up
                      THEN batch_set_state("completed", batch.today, None,
                                           Some(result_summary), None)
                      ELSE batch_state
               /\ IF state_up /\ history_up
                  THEN /\ batch_history' = batch_add_history(batch_history, rec)
                       /\ FinishBatch(batch, "completed")
                  ELSE /\ batch' = [batch EXCEPT !.pc = "handler"]
                       /\ UNCHANGED <<batch_history, batch_ret>>
    /\ UNCHANGED <<popular_stocks_cache, scheduler>>
    /\ UNCHANGED <<calendarvars, histvars, quotevars>>
    /\ UNCHANGED <<syncvars, usdvars, cachevars, jobvars>>

\* the except block of run_batch_update: BatchState "failed", the run
\* record, raise
fail_batch ==
    /\ batch.pc = "handler"
    /\ \E state_up \in BOOLEAN, history_up \in BOOLEAN :
           LET rec == [run_date |-> batch.today, stocks_count |-> 0,
                       success_count |-> 0, failed_count |-> 0,
                       success |-> FALSE, error |-> TRUE]
           IN  /\ batch_state' =
                      IF state_up
                      THEN batch_set_state("failed", batch.today, None, None,
                                           Some("error"))
                      ELSE batch_state
               /\ batch_history' =
                      IF state_up /\ history_up
                      THEN batch_add_history(batch_history, rec)
                      ELSE batch_history
               /\ AfterRaise([batch EXCEPT
                                 !.store_raised = ~(state_up /\ history_up)])
    /\ UNCHANGED <<popular_stocks_cache, scheduler>>
    /\ UNCHANGED <<calendarvars, histvars, quotevars>>
    /\ UNCHANGED <<syncvars, usdvars, cachevars, jobvars>>

\* run_with_retry after asyncio.sleep(delay_seconds): the next attempt, on
\* the same day or, past midnight, on the next
retry_batch ==
    /\ batch.pc = "sleeping"
    /\ \E d \in {batch.today, batch.today + 1} :
           batch' = [NoBatch EXCEPT !.pc = "attempt",
                                    !.attempt = batch.attempt + 1,
                                    !.today = d, !.slept = batch.slept]
    /\ UNCHANGED <<batch_state, batch_history, popular_stocks_cache,
                   batch_ret, scheduler>>
    /\ UNCHANGED <<calendarvars, histvars, quotevars>>
    /\ UNCHANGED <<syncvars, usdvars, cachevars, jobvars>>

\* shutdown_scheduler: _scheduler.shutdown(wait=False), then the scheduler
\* state is written.  A run the cron trigger started and a tick the
\* interval trigger started are jobs of the scheduler, which are cancelled
\* where they wait or go on; a run or a tick a request started goes on.
shutdown_scheduler ==
    /\ scheduler = "running"
    /\ scheduler' = "shut down"
    /\ \E cancelled \in BOOLEAN, redis_up \in BOOLEAN :
           /\ batch' = IF cancelled /\ InBatch
                       THEN [batch EXCEPT !.pc = "cancelled"]
                       ELSE batch
           /\ jobs' = IF cancelled
                      THEN [jobs EXCEPT !["interval"] = NoTick]
                      ELSE jobs
           /\ scheduler_state' =
                  IF redis_up
                  THEN Some([is_running |-> FALSE, last_run_at |-> None,
                             stocks_updated |-> 0,
                             exchange_updated |-> FALSE])
                  ELSE scheduler_state
    /\ UNCHANGED <<batch_state, batch_history, popular_stocks_cache,
                   batch_ret>>
    /\ UNCHANGED <<market_status_cache, fx_cache, realtime_prices,
                   run_history, job_ret, runs_left>>
    /\ UNCHANGED <<calendarvars, histvars, quotevars>>
    /\ UNCHANGED <<syncvars, usdvars, cachevars>>

\* what a completed run of an earlier Friday left in the store
EarlierRun ==
    LET d == 4
        summary == [success |-> TRUE, date |-> d, total_stocks |-> 1,
                    market_cap_count |-> 0, volume_count |-> 1,
                    updated_count |-> 1, failed_count |-> 0]
    IN  [batch_state |-> batch_set_state("completed", d, None,
                                         Some(summary), None),
         batch_history |-> <<[run_date |-> d, stocks_count |-> 1,
                              success_count |-> 1, failed_count |-> 0,
                              success |-> TRUE, error |-> FALSE]>>,
         popular_stocks_cache |->
             popular_set({}, "volume",
                         <<CHOOSE s \in Symbols : TRUE>>).cache]

BatchInit ==
    /\ SyncIdle
    /\ UsdIdle
    /\ CacheIdle
    /\ JobIdle
    /\ market_ret = None
    /\ \/ /\ batch_state = None
          /\ batch_history = <<>>
          /\ popular_stocks_cache = {}
       \/ /\ batch_state = EarlierRun.batch_state
          /\ batch_history = EarlierRun.batch_history
          /\ popular_stocks_cache = EarlierRun.popular_stocks_cache
    /\ batch = NoBatch
    /\ batch_ret = None
    /\ scheduler = "running"
    /\ appenders = [a \in Appenders |-> "idle"]
    /\ appended = [k \in HistoryKeys |-> 0]
    /\ QuoteIdle

BatchNext ==
    \/ run_with_retry
    \/ run_batch_update
    \/ get_popular_stocks
    \/ process_batch
    \/ update_popular_stocks_cache
    \/ complete_batch
    \/ fail_batch
    \/ retry_batch
    \/ shutdown_scheduler

BatchSpec == BatchInit /\ [][BatchNext]_vars

\* the steps of a run in progress
BatchStep ==
    \/ run_batch_update
    \/ get_popular_stocks
    \/ process_batch
    \/ update_popular_stocks_cache
    \/ complete_batch
    \/ fail_batch
    \/ retry_batch

\* the event loop runs a coroutine that can go on
BatchFairSpec == BatchSpec /\ WF_vars(BatchStep)

\* no trading on a day: a Saturday, a Sunday or a day of the holiday table
NoTrading(d) == weekday(d) \in {5, 6} \/ d \in KRX_HOLIDAYS

UniqueTargets(b) == Elems(b.market_cap) \cup Elems(b.volume)

\* C24: a target whose ensure_data_synced or quote refresh raises does not
\* end the run: it is recorded as failed, every other target is processed,
\* and updated_count + failed_count is the number of unique targets.
C24_EveryTargetCounted ==
    /\ batch.pc \in {"popular", "finish"}
           => /\ batch.synced = UniqueTargets(batch)
              /\ batch.success \cup batch.failed = UniqueTargets(batch)
              /\ batch.success \cap batch.failed = {}
    /\ (~IsNone(batch_ret) /\ Val(batch_ret).pc = "completed")
           => LET b == Val(batch_ret)
                  result == Val(Val(batch_state).result)
              IN  /\ Val(batch_state).status = "completed"
                  /\ b.synced = UniqueTargets(b)
                  /\ b.success \cup b.failed = UniqueTargets(b)
                  /\ b.success \cap b.failed = {}
                  /\ result.updated_count = Cardinality(b.success)
                  /\ result.failed_count = Cardinality(b.failed)
                  /\ result.updated_count + result.failed_count
                         = Cardinality(UniqueTargets(b))
                  /\ result.total_stocks = Cardinality(UniqueTargets(b))

\* a run completed with one target failed and another updated
C24_Witness ==
    /\ ~IsNone(batch_ret)
    /\ Val(batch_ret).pc = "completed"
    /\ Val(batch_ret).failed # {}
    /\ Val(batch_ret).success # {}
    /\ Val(Val(batch_state).result).failed_count = 1

C26_ShutdownLeavesNoRunningBatch ==
    (scheduler = "shut down" /\ ~IsNone(batch_state))
        => Val(batch_state).status # "running"

\* C27: when a batch run completes and at least one of the first
\* POPULAR_TOP market-cap targets and one of the first POPULAR_TOP volume
\* targets has a price, the popular entries "market_cap" and "volume" hold
\* the priced targets of this run, at most POPULAR_TOP each.
C27_PopularRefreshed ==
    (~IsNone(batch_ret) /\ Val(batch_ret).pc = "completed")
        => LET b == Val(batch_ret)
               market_cap_data == Filter(take(b.market_cap, POPULAR_TOP),
                                         b.priced)
               volume_data == Filter(take(b.volume, POPULAR_TOP), b.priced)
           IN  (market_cap_data # <<>> /\ volume_data # <<>>)
                   => /\ popular_get(popular_stocks_cache, "market_cap")
                             = Some(market_cap_data)
                      /\ popular_get(popular_stocks_cache, "volume")
                             = Some(volume_data)
                      /\ Len(market_cap_data) <= POPULAR_TOP
                      /\ Len(volume_data) <= POPULAR_TOP

\* a step ends an attempt of a trading day: run_batch_update returns or
\* raises
AttemptEnds ==
    /\ batch.pc \in {"attempt", "finish", "handler"}
    /\ batch'.pc \in {"sleeping", "idle"}
    /\ ~NoTrading(batch.today)

\* the attempt the step ended
Ended == IF batch'.pc = "sleeping" THEN batch' ELSE Val(batch_ret')

\* the progress BatchState shows, <<current, total>>
Progress(state) == Val(Val(state).progress)

\* progress.current is at most progress.total, and does not go down while
\* an attempt runs
ProgressGrows ==
    /\ [](\/ IsNone(batch_state)
          \/ IsNone(Val(batch_state).progress)
          \/ Progress(batch_state)[1] <= Progress(batch_state)[2])
    /\ [][(/\ InBatch
           /\ batch'.attempt = batch.attempt
           /\ ~IsNone(batch_state)
           /\ ~IsNone(Val(batch_state).progress)
           /\ ~IsNone(Val(batch_state').progress))
              => Progress(batch_state')[1] >= Progress(batch_state)[1]]_vars

C40_CompletedOnlyWithTargets ==
    (~IsNone(batch_ret) /\ Val(batch_ret).pc = "completed")
        => /\ Val(batch_ret).all_symbols # {}
           /\ Head(batch_history).stocks_count > 0

\* ------------------------------------- the realtime job, the store failing
\* the steps of realtime_update_job that call the KV store
TickSteps == {"market", "stocks", "exchange", "cleanup", "record"}

\* The KV store is unavailable when a step of the job calls it: the call
\* raises and the except block of realtime_update_job runs, whose
\* add_run_history calls the store again.  In the last step the store can
\* fail after add_run_history, at set_state.
store_unavailable(t) ==
    /\ jobs[t].pc \in TickSteps
    /\ \E pushed \in BOOLEAN, redis_up \in BOOLEAN :
           LET ok == [run_time |-> jobs[t].job_start,
                      duration_ms |-> (now - jobs[t].job_start) * 1000,
                      stocks_count |->
                          IF IsNone(jobs[t].stock_result) THEN 0
                          ELSE Val(jobs[t].stock_result).stocks_updated,
                      success |-> TRUE,
                      error |-> FALSE]
               rec == [run_time |-> jobs[t].job_start,
                       duration_ms |-> (now - jobs[t].job_start) * 1000,
                       stocks_count |-> 0,
                       success |-> FALSE,
                       error |-> TRUE]
               before == IF pushed THEN lpush_ltrim(run_history, ok)
                         ELSE run_history
           IN  /\ pushed => jobs[t].pc = "record"
               /\ IF redis_up
                  THEN /\ run_history' = lpush_ltrim(before, rec)
                       /\ job_ret' = Some([jobs[t] EXCEPT
                                               !.pc = "done",
                                               !.record = Some(rec)])
                  ELSE /\ run_history' = before
                       /\ job_ret' = Some([jobs[t] EXCEPT !.pc = "raised"])
               /\ jobs' = [jobs EXCEPT ![t] = NoTick]
    /\ UNCHANGED <<market_status_cache, fx_cache, realtime_prices,
                   scheduler_state, runs_left>>
    /\ UNCHANGED <<schedvars, syncvars, usdvars, cachevars>>

\* the executions the interval trigger starts, one after the other
FaultNext ==
    \/ interval_trigger
    \/ realtime_update_job("interval")
    \/ store_unavailable("interval")

FaultSpec == JobInit /\ [][FaultNext]_vars

\* C21: the scheduler jobs end normally whichever step fails, the KV store
\* being unavailable included: an execution of realtime_update_job that
\* ended did not raise, and one that failed left a run record with
\* success = FALSE at the head of the scheduler history.
C21_JobsNeverRaise ==
    ~IsNone(job_ret)
        => /\ Val(job_ret).pc = "done"
           /\ ~IsNone(Val(job_ret).record)
           /\ Val(job_ret).record = Some(Head(run_history))

\* C37: every execution of realtime_update_job appends exactly one run
\* record, never none and never two, whichever step fails, the write of
\* the history or of the scheduler state included; the record has success
\* true when every step succeeded and false otherwise.
C37_OneRecordPerExecution ==
    [][\A t \in Triggers :
           (jobs[t].pc # "idle" /\ jobs'[t].pc = "idle")
               => /\ Len(run_history') = Len(run_history) + 1
                  /\ Tail(run_history') = run_history
                  /\ Head(run_history').run_time = jobs[t].job_start]_vars

\* ------------------------------------------- the scheduler shutting down
\* POST /scheduler/trigger is served while the application runs
post_scheduler_trigger ==
    /\ scheduler = "running"
    /\ trigger_manual_update

\* the ticks of both triggers, and the shutdown of the scheduler
StopNext ==
    \/ interval_trigger
    \/ post_scheduler_trigger
    \/ \E t \in Triggers : realtime_update_job(t)
    \/ shutdown_scheduler

\* the scheduler runs; a behaviour follows one tick, of either trigger,
\* over the symbols touched at time 0
StopInit ==
    /\ SyncIdle
    /\ UsdIdle
    /\ SchedIdle
    /\ now = 0
    /\ ticks_left = 0
    /\ \E touched \in SUBSET Symbols :
           /\ active_symbols = {[member |-> m, score |-> 0] : m \in touched}
           /\ touch_log = [s \in Symbols |->
                               IF s \in touched THEN Some(0) ELSE None]
    /\ purged_at = None
    /\ cache_ret = NoCacheCall
    /\ market_status_cache = None
    /\ fx_cache = None
    /\ realtime_prices = {}
    /\ run_history = <<>>
    /\ scheduler_state = None
    /\ jobs = [t \in Triggers |-> NoTick]
    /\ job_ret = None
    /\ runs_left = 1

StopSpec == StopInit /\ [][StopNext]_vars

\* C39: once shutdown_scheduler has completed, the scheduler state says
\* is_running = FALSE and stays so: no tick that was in progress at the
\* shutdown, started by the interval trigger or by a request, writes the
\* scheduler state, a run record or a cache entry afterwards.
C39_NothingWrittenAfterShutdown ==
    [][scheduler = "shut down"
           => UNCHANGED <<scheduler_state, run_history, realtime_prices,
                          market_status_cache, fx_cache,
                          active_symbols>>]_vars

\* ------------------------------------------------------ the run histories
\* An append is LPUSH, then LTRIM (then EXPIRE), each awaited: the appends
\* of the writers interleave between the two.  A record carries, as its
\* run_time, its number among the records ever pushed to its history.

\* number of appends to a history
MaxAppends == 2

\* the history a writer appends to
KeyOf(a) == IF a \in {"interval", "manual"} THEN "scheduler" ELSE "batch"

\* LTRIM key 0 stop
StopOf(key) == IF key = "scheduler" THEN LTRIM_STOP ELSE BATCH_LTRIM_STOP

\* the list of a history
History(key) == IF key = "scheduler" THEN run_history ELSE batch_history

\* the appends start on an empty history or on one a record short of full
Starts(key) == {0, StopOf(key)}

\* a history after n appends, one after the other
Appended(key, n) ==
    [i \in 1..Min({n, StopOf(key) + 1}) |-> [run_time |-> n - i + 1]]

\* the writers between their LPUSH and their LTRIM
Pending(key) == {a \in Appenders : KeyOf(a) = key /\ appenders[a] = "pushed"}

\* add_run_history / add_history up to the LTRIM
lpush(a) ==
    /\ appenders[a] = "idle"
    /\ \E start \in Starts(KeyOf(a)) :
           /\ start <= appended[KeyOf(a)]
           /\ appended[KeyOf(a)] < start + MaxAppends
    /\ LET rec == [run_time |-> appended[KeyOf(a)] + 1]
       IN  IF KeyOf(a) = "scheduler"
           THEN /\ run_history' = LPUSH(run_history, rec)
                /\ UNCHANGED batch_history
           ELSE /\ batch_history' = LPUSH(batch_history, rec)
                /\ UNCHANGED run_history
    /\ appended' = [appended EXCEPT ![KeyOf(a)] = @ + 1]
    /\ appenders' = [appenders EXCEPT ![a] = "pushed"]
    /\ UNCHANGED <<market_status_cache, fx_cache, realtime_prices,
                   scheduler_state, jobs, job_ret, runs_left>>
    /\ UNCHANGED <<batch_state, popular_stocks_cache, batch, batch_ret,
                   scheduler>>
    /\ UNCHANGED <<calendarvars, quotevars, syncvars, usdvars, cachevars>>

\* add_run_history / add_history from the LTRIM on
ltrim(a) ==
    /\ appenders[a] = "pushed"
    /\ IF KeyOf(a) = "scheduler"
       THEN /\ run_history' = LTRIM(run_history, 0, StopOf("scheduler"))
            /\ UNCHANGED batch_history
       ELSE /\ batch_history' = LTRIM(batch_history, 0, StopOf("batch"))
            /\ UNCHANGED run_history
    /\ appenders' = [appenders EXCEPT ![a] = "idle"]
    /\ UNCHANGED appended
    /\ UNCHANGED <<market_status_cache, fx_cache, realtime_prices,
                   scheduler_state, jobs, job_ret, runs_left>>
    /\ UNCHANGED <<batch_state, popular_stocks_cache, batch, batch_ret,
                   scheduler>>
    /\ UNCHANGED <<calendarvars, quotevars, syncvars, usdvars, cachevars>>

HistInit ==
    /\ SyncIdle
    /\ UsdIdle
    /\ CacheIdle
    /\ market_status_cache = None
    /\ fx_cache = None
    /\ realtime_prices = {}
    /\ scheduler_state = None
    /\ jobs = [t \in Triggers |-> NoTick]
    /\ job_ret = None
    /\ runs_left = 0
    /\ market_ret = None
    /\ batch_state = None
    /\ popular_stocks_cache = {}
    /\ batch = NoBatch
    /\ batch_ret = None
    /\ scheduler = "running"
    /\ QuoteIdle
    /\ appenders = [a \in Appenders |-> "idle"]
    /\ \E n \in Starts("scheduler"), m \in Starts("batch") :
           /\ appended = [k \in HistoryKeys |->
                              IF k = "scheduler" THEN n ELSE m]
           /\ run_history = Appended("scheduler", n)
           /\ batch_history = Appended("batch", m)

HistNext ==
    \/ \E a \in Appenders : lpush(a)
    \/ \E a \in Appenders : ltrim(a)

HistSpec == HistInit /\ [][HistNext]_vars

\* C28: after any interleaving of appends the scheduler history holds at
\* most LTRIM_STOP + 1 = 100 records and the batch history at most
\* BATCH_LTRIM_STOP + 1 = 30, newest first, and they are the records
\* appended last; while appends are between their LPUSH and their LTRIM a
\* history is longer by at most their number.
C28_HistoriesBounded ==
    \A key \in HistoryKeys :
        LET h == History(key)
            n == appended[key]
        IN  /\ Len(h) <= StopOf(key) + 1 + Cardinality(Pending(key))
            /\ Len(h) <= n
            /\ \A i \in 1..Len(h) : h[i].run_time = n - i + 1
            /\ Pending(key) = {} => h = Appended(key, n)

\* both histories were full, took one more record each and are trimmed
C28_Witness ==
    /\ \A a \in Appenders : appenders[a] = "idle"
    /\ appended["scheduler"] = LTRIM_STOP + 2
    /\ appended["batch"] = BATCH_LTRIM_STOP + 2
    /\ Len(run_history) = LTRIM_STOP + 1
    /\ Len(batch_history) = BATCH_LTRIM_STOP + 1
    /\ Head(run_history).run_time = LTRIM_STOP + 2
    /\ Head(batch_history).run_time = BATCH_LTRIM_STOP + 2

\* ------------------------------------------- the providers failing in a sync
\* C29: when FinanceDataReader and yfinance both fail, the fetch gives an
\* empty series instead of raising: the call that asked both providers
\* ends normally, and with no bar fetched its result is the no-data result
\* with zero bars synced.
C29_AllProvidersFailedIsNoData ==
    \A r \in Returned :
        r.fetches = 2
            => /\ ~r.raised
               /\ ~r.sync_error
               /\ r.historical_data = <<>>
                      => /\ r.synced_count = 0
                         /\ r.message = "No data available for the period"

\* the steps of sync_stock_prices after the status was set to syncing
AfterSyncing == {"fetch", "get_rates", "save", "complete", "complete_empty",
                 "fail"}

\* the results of calls that asked a provider
Fetched == {r \in Returned : r.fetches > 0}

RaceSymbol == CHOOSE s \in Symbols : upper(s) = s

\* an entry of krxusd:stock:realtime:{symbol}
RealtimeEntry(updated_at, exchange_rate) ==
    [updated_at |-> updated_at,
     exchange_rate |-> exchange_rate,
     close_price_usd |-> ~IsNone(exchange_rate)]

\* StockRealtimeCache.set / mset up to the command:
\* data["updated_at"] = datetime.now().isoformat()
stock_realtime_set(w) ==
    /\ writers[w].pc = "idle"
    /\ writers' = [writers EXCEPT
                      ![w] = [pc |-> "set", updated_at |-> now]]
    /\ UNCHANGED <<stock_realtime_cache, session>>
    /\ UNCHANGED <<calendarvars, batchvars, histvars>>
    /\ UNCHANGED <<syncvars, usdvars, cachevars, jobvars>>

\* the SET command of a writer is applied by the store
redis_set(w) ==
    /\ writers[w].pc = "set"
    /\ stock_realtime_cache' =
           [stock_realtime_cache EXCEPT
               ![RaceSymbol] =
                   Some(RealtimeEntry(writers[w].updated_at, None))]
    /\ writers' = [writers EXCEPT ![w] = NoWrite]
    /\ UNCHANGED session
    /\ UNCHANGED <<calendarvars, batchvars, histvars>>
    /\ UNCHANGED <<syncvars, usdvars, cachevars, jobvars>>

\* no entry, no writer writing, the clock at 0
RealtimeInit ==
    /\ SyncIdle
    /\ UsdIdle
    /\ JobIdle
    /\ SchedIdle
    /\ now = 0
    /\ ticks_left = MaxTicks
    /\ active_symbols = {}
    /\ touch_log = [s \in Symbols |-> None]
    /\ purged_at = None
    /\ cache_ret = NoCacheCall

RaceNext ==
    \/ Advance
    \/ \E w \in Writers : stock_realtime_set(w)
    \/ \E w \in Writers : redis_set(w)

RaceSpec == RealtimeInit /\ [][RaceNext]_vars

\* C36: under every interleaving of the writers of one symbol's realtime
\* entry, updated_at of the stored entry never goes down from one stored
\* value to the next.
C36_UpdatedAtNeverDecreases ==
    [][(/\ ~IsNone(stock_realtime_cache[RaceSymbol])
        /\ ~IsNone(stock_realtime_cache'[RaceSymbol]))
           => Val(stock_realtime_cache'[RaceSymbol]).updated_at
                  >= Val(stock_realtime_cache[RaceSymbol]).updated_at]_vars

\* ------------------------------------------------ the quote step of a tick
\* ExchangeRateCache.ttl, seconds
FX_TTL == 60

\* the USD/KRW rates a source answers with
FxRates == {1300, 1400}

\* settings.scheduler_max_batch_size of the deployment the ticks run in:
\* one less than the symbols there are, so that the cap can bite
max_batch == Cardinality(Symbols) - 1

\* the members of the sorted set in lexicographic order
Lexicographic == <<"AAA", "BBB">>

\* the place of a member in the lexicographic order
lex(member) == CHOOSE i \in DOMAIN Lexicographic : Lexicographic[i] = member

\* the members of a sorted set in the order Redis keeps them: by score,
\* members of one score lexicographically
RECURSIVE zrange(_)
zrange(zset) ==
    IF zset = {} THEN <<>>
    ELSE LET first == CHOOSE e \in zset :
                          \A x \in zset :
                              \/ x = e
                              \/ e.score < x.score
                              \/ /\ e.score = x.score
                                 /\ lex(e.member) < lex(x.member)
         IN  <<first.member>> \o zrange(zset \ {first})

\* client.zrangebyscore(key, min, "+inf"): a list
zrangebyscore(zset, min) == zrange({e \in zset : e.score >= min})

\* ExchangeRateCache.get_realtime at time t: SET ... EX ttl makes the key
\* expire ttl seconds after it was set
exchange_get_realtime(cache, t) ==
    IF IsNone(cache) THEN None
    ELSE IF t >= Val(cache).updated_at + FX_TTL THEN None
    ELSE Some(Val(cache).rate)

\* update_active_stocks in trading time: the active symbols, the first
\* max_batch of them, and get_realtime_prices_batch(symbols_to_update,
\* force_refresh=True): the rate is read once from the rate cache, the
\* quotes a source answers are joined with it and written by mset
get_realtime_prices_batch ==
    LET active == zrangebyscore(active_symbols, now - ttl)
        symbols_to_update == take(active, max_batch)
        exchange_rate == exchange_get_realtime(fx_cache, now)
    IN  /\ \E answered \in SUBSET Elems(symbols_to_update) :
               /\ stock_realtime_cache' =
                      [s \in Symbols |->
                          IF s \in answered
                          THEN Some(RealtimeEntry(now, exchange_rate))
                          ELSE stock_realtime_cache[s]]
               /\ job_ret' = Some([at |-> now,
                                   active |-> active,
                                   symbols |-> symbols_to_update,
                                   written |-> answered])
        /\ UNCHANGED <<market_status_cache, fx_cache, realtime_prices,
                       run_history, scheduler_state, jobs, runs_left>>
        /\ UNCHANGED <<writers, session>>
        /\ UNCHANGED <<calendarvars, batchvars, histvars>>
        /\ UNCHANGED <<syncvars, usdvars, cachevars>>

\* update_exchange_rate: get_current_rate(force_refresh=True) fetches the
\* rate and writes it to the rate cache, or raises when no source answers
get_current_rate ==
    /\ \E outcome \in FxOutcomes, rate \in FxRates :
           fx_cache' = IF outcome = "raise" THEN fx_cache
                       ELSE Some([rate |-> rate, source |-> outcome,
                                  updated_at |-> now])
    /\ UNCHANGED <<market_status_cache, realtime_prices, run_history,
                   scheduler_state, jobs, job_ret, runs_left>>
    /\ UNCHANGED <<schedvars, syncvars, usdvars, cachevars>>

\* the quote steps of the ticks, the touches of the read paths and the
\* clock
CapNext ==
    \/ Advance
    \/ register_active_symbol
    \/ get_realtime_prices_batch

CapSpec == RealtimeInit /\ [][CapNext]_vars

\* the clock at 0, symbols touched at that instant, no rate in the cache
QuoteInit ==
    /\ SyncIdle
    /\ UsdIdle
    /\ JobIdle
    /\ SchedIdle
    /\ now = 0
    /\ ticks_left = MaxTicks
    /\ \E touched \in SUBSET Symbols :
           /\ active_symbols = {[member |-> m, score |-> 0] : m \in touched}
           /\ touch_log = [s \in Symbols |->
                               IF s \in touched THEN Some(0) ELSE None]
    /\ purged_at = None
    /\ cache_ret = NoCacheCall

\* the quote steps and the rate refreshes of the ticks, and the clock
QuoteNext ==
    \/ Advance
    \/ get_realtime_prices_batch
    \/ get_current_rate

QuoteSpec == QuoteInit /\ [][QuoteNext]_vars

\* the symbols active at the time of a step: touched within the last ttl
\* seconds
ActiveNow ==
    {s \in Symbols : /\ ~IsNone(touch_log[s])
                     /\ Val(touch_log[s]) >= now - ttl}

\* C33: in every tick the symbols whose quotes are fetched are at most
\* max_batch, all of them active at the time of the tick, and they are
\* the first max_batch symbols of the active list in the order it is
\* returned in (oldest touch first); when no more than max_batch symbols
\* are active, all of them are fetched.
C33_FirstMaxBatchOfActive ==
    [][(job_ret' # job_ret /\ ~IsNone(job_ret'))
           => LET r == Val(job_ret')
              IN  /\ Len(r.symbols) <= max_batch
                  /\ Elems(r.symbols) \subseteq ActiveNow
                  /\ Elems(r.active) = ActiveNow
                  /\ Len(r.active) = Cardinality(ActiveNow)
                  /\ \A i, j \in DOMAIN r.active :
                         i < j => Val(touch_log[r.active[i]])
                                      <= Val(touch_log[r.active[j]])
                  /\ r.symbols = SubSeq(r.active, 1, Len(r.symbols))
                  /\ Len(r.symbols) = Min({max_batch, Len(r.active)})
                  /\ Cardinality(ActiveNow) <= max_batch
                         => Elems(r.symbols) = ActiveNow
                  /\ r.written \subseteq Elems(r.symbols)]_vars

\* more symbols than max_batch were active at a tick, and the quote of the
\* one touched first was fetched and written, the other left out
C33_Witness ==
    /\ ~IsNone(job_ret)
    /\ Len(Val(job_ret).active) > max_batch
    /\ Val(job_ret).active = <<"BBB", "AAA">>
    /\ Val(job_ret).symbols = <<"BBB">>
    /\ Val(job_ret).written = {"BBB"}
    /\ ~IsNone(stock_realtime_cache["BBB"])
    /\ IsNone(stock_realtime_cache["AAA"])

\* C35: every quote a tick writes to the realtime cache is joined with the
\* current USD/KRW rate, read once in the tick: each entry written carries
\* exchange_rate and close_price_usd, from one rate for all the symbols of
\* the tick.
C35_QuotesCarryTheRate ==
    [][(job_ret' # job_ret /\ ~IsNone(job_ret'))
           => \A s \in Val(job_ret').written :
                  /\ ~IsNone(stock_realtime_cache'[s])
                  /\ ~IsNone(Val(stock_realtime_cache'[s]).exchange_rate)
                  /\ Val(stock_realtime_cache'[s]).close_price_usd
                  /\ \A q \in Val(job_ret').written :
                         Val(stock_realtime_cache'[q]).exchange_rate
                             = Val(stock_realtime_cache'[s]).exchange_rate
      ]_vars

\* --------------------------------------------- ticks without an end
\* The ticks of a trading session that goes on: the interval trigger fires
\* every scheduler_realtime_interval_seconds, the sources answer every
\* quote asked for.  Times are kept relative to the current instant, which
\* is 0: when an interval passes, every score and every updated_at goes
\* down by the interval; a score is not followed below the one that is
\* stale for good, and an entry is gone when its TTL is over.

\* settings.scheduler_realtime_interval_seconds
scheduler_realtime_interval_seconds == 60

\* StockRealtimeCache.ttl, seconds
REALTIME_TTL == 120

\* the lowest score followed: stale, and stale after every further interval
StaleScore == 0 - ttl - scheduler_realtime_interval_seconds

\* the sorted set after seconds went by
aged_scores(zset, seconds) ==
    {[member |-> e.member,
      score |-> Max({e.score - seconds, StaleScore})] : e \in zset}

\* the realtime entries after seconds went by
aged_entries(cache, seconds) ==
    [s \in Symbols |->
        IF IsNone(cache[s]) THEN None
        ELSE IF Val(cache[s]).updated_at - seconds <= 0 - REALTIME_TTL
        THEN None
        ELSE Some([Val(cache[s]) EXCEPT !.updated_at = @ - seconds])]

\* a read path serves a symbol: register_active_symbol(symbol)
touch(symbol) ==
    /\ active_symbols' = add(active_symbols, symbol, now)
    /\ UNCHANGED <<now, ticks_left, touch_log, purged_at, cache_ret>>
    /\ UNCHANGED <<schedvars, syncvars, usdvars, jobvars>>

\* an interval passes and the interval trigger fires
interval_passes ==
    /\ jobs["interval"].pc = "idle"
    /\ jobs' = [jobs EXCEPT !["interval"].pc = "stocks"]
    /\ active_symbols' =
           aged_scores(active_symbols, scheduler_realtime_interval_seconds)
    /\ stock_realtime_cache' =
           aged_entries(stock_realtime_cache,
                        scheduler_realtime_interval_seconds)
    /\ UNCHANGED <<now, ticks_left, touch_log, purged_at, cache_ret>>
    /\ UNCHANGED <<market_status_cache, fx_cache, realtime_prices,
                   run_history, scheduler_state, job_ret, runs_left>>
    /\ UNCHANGED <<writers, session>>
    /\ UNCHANGED <<calendarvars, batchvars, histvars>>
    /\ UNCHANGED <<syncvars, usdvars>>

\* the tick in trading time, the sources answering: the quotes of the
\* first max_batch active symbols are written, the stale symbols purged
tick_in_session ==
    /\ jobs["interval"].pc = "stocks"
    /\ LET active == zrangebyscore(active_symbols, now - ttl)
           symbols_to_update == take(active, max_batch)
           exchange_rate == exchange_get_realtime(fx_cache, now)
       IN  /\ stock_realtime_cache' =
                  [s \in Symbols |->
                      IF s \in Elems(symbols_to_update)
                      THEN Some(RealtimeEntry(now, exchange_rate))
                      ELSE stock_realtime_cache[s]]
           /\ job_ret' = Some([at |-> now,
                               active |-> active,
                               symbols |-> symbols_to_update,
                               written |-> Elems(symbols_to_update)])
    /\ active_symbols' = cleanup_stale(active_symbols, now)
    /\ jobs' = [jobs EXCEPT !["interval"] = NoTick]
    /\ UNCHANGED <<now, ticks_left, touch_log, purged_at, cache_ret>>
    /\ UNCHANGED <<market_status_cache, fx_cache, realtime_prices,
                   run_history, scheduler_state, runs_left>>
    /\ UNCHANGED <<writers, session>>
    /\ UNCHANGED <<calendarvars, batchvars, histvars>>
    /\ UNCHANGED <<syncvars, usdvars>>

SessionNext ==
    \/ \E symbol \in Symbols : touch(symbol)
    \/ interval_passes
    \/ tick_in_session

\* time goes by and the tick that is due runs
SessionSpec ==
    /\ RealtimeInit
    /\ [][SessionNext]_vars
    /\ WF_vars(interval_passes)
    /\ WF_vars(tick_in_session)

\* C38: no active symbol is starved by the cap: in trading time, the
\* ticks firing and the sources answering, every symbol that stays active
\* has its realtime entry written by a tick again and again, also when
\* more than max_batch symbols are active at every tick.
C38_NoActiveSymbolStarved ==
    \A s \in Symbols :
        <>[](s \in get_active_symbols(active_symbols, None, now))
            => []<>(~IsNone(job_ret) /\ s \in Val(job_ret).written)

\* ------------------------------------------ the session of the batch job
\* run_batch_update opens one AsyncSession, builds one StockDataService on
\* it and hands that service to every _update_single_stock of a gather:
\* the syncs of the symbols of one gather run as coroutines on one session
\* and so in one transaction.  Every await on the session (execute,
\* commit) is a step; the coroutines interleave between the steps.
\* COMMIT makes every statement executed on the session since the last
\* COMMIT durable, whichever coroutine executed it.

\* price dicts one call of _save_prices_batch is given
MaxBars == 2

\* the bars fetched for a symbol: one per day from FirstDay on
FetchedBars(symbol) ==
    BarsOf("financedatareader", FirstDay..(FirstDay + MaxBars - 1))

\* the statement executed on the session: an upsert of a price row or of
\* a sync_status row
PriceStatement(row) == [table |-> "stock_prices", row |-> row]

StatusStatement(stock_id, status, last_sync_date, error_message) ==
    [table |-> "sync_status", stock_id |-> stock_id, status |-> status,
     last_sync_date |-> last_sync_date, error_message |-> error_message]

\* the tables after the statements of a transaction, in the order executed
RECURSIVE apply_prices(_, _)
apply_prices(table, statements) ==
    IF statements = <<>> THEN table
    ELSE LET st == Head(statements)
         IN  apply_prices(IF st.table = "stock_prices"
                          THEN upsert_price(table, st.row) ELSE table,
                          Tail(statements))

RECURSIVE apply_statuses(_, _)
apply_statuses(table, statements) ==
    IF statements = <<>> THEN table
    ELSE LET st == Head(statements)
         IN  apply_statuses(IF st.table = "sync_status"
                            THEN update_sync_status(
                                     table, st.stock_id, st.status,
                                     st.last_sync_date, st.error_message)
                            ELSE table,
                            Tail(statements))

\* await self.db.execute(stmt): the statement joins the open transaction
db_execute(stmt) == Append(session.transaction, stmt)

\* the session and the position of a symbol's sync after a step
session_goes(symbol, transaction, next, count) ==
    /\ session' = [transaction |-> transaction,
                   syncs |-> [session.syncs EXCEPT
                                 ![symbol] = [pc |-> next, count |-> count]]]
    /\ UNCHANGED <<stock_realtime_cache, writers>>
    /\ UNCHANGED <<calendarvars, batchvars, histvars>>
    /\ UNCHANGED <<today, stocks, exchange_rates, pc, locals, returned,
                   lastOk, calls_left>>
    /\ UNCHANGED <<usdvars, cachevars, jobvars>>

\* the sync of a symbol moves on, the tables as they are
sync_goes(symbol, transaction, next, count) ==
    /\ UNCHANGED <<stock_prices, sync_status>>
    /\ session_goes(symbol, transaction, next, count)

\* await self.db.commit(), in _update_sync_status and at the end of
\* _save_prices_batch: the open transaction of the session is committed
db_commit(symbol) ==
    LET pos == session.syncs[symbol].pc
        next == CASE pos = "commit_syncing" -> "save"
                  [] pos = "commit_prices" -> "complete"
                  [] pos = "commit_completed" -> "returned"
                  [] pos = "commit_failed" -> "raised"
    IN  /\ pos \in {"commit_syncing", "commit_prices", "commit_completed",
                    "commit_failed"}
        /\ stock_prices' = apply_prices(stock_prices, session.transaction)
        /\ sync_status' = apply_statuses(sync_status, session.transaction)
        /\ session_goes(symbol, <<>>, next, session.syncs[symbol].count)

\* _update_sync_status up to its commit: the upsert of the status row.
\* syncing before the fetch, completed (last_sync_date = end_date) after
\* _save_prices_batch, failed (error_message = str(e)[:500]) in the
\* except block of sync_stock_prices
execute_sync_status(symbol) ==
    LET pos == session.syncs[symbol].pc
        count == session.syncs[symbol].count
        stock_id == NewId(symbol)
    IN  \/ /\ pos = "set_syncing"
           /\ sync_goes(symbol,
                        db_execute(StatusStatement(stock_id, "syncing",
                                                   None, None)),
                        "commit_syncing", count)
        \/ /\ pos = "complete"
           /\ sync_goes(symbol,
                        db_execute(StatusStatement(
                            stock_id, "completed",
                            Some(FirstDay + MaxBars - 1), None)),
                        "commit_completed", count)
        \/ /\ pos = "fail"
           /\ \E chars \in ErrorLengths :
                sync_goes(symbol,
                          db_execute(StatusStatement(
                              stock_id, "failed", None,
                              Some(truncate(chars, ERROR_MESSAGE_CHARS)))),
                          "commit_failed", count)

\* one turn of the loop of _save_prices_batch: the statement of the next
\* price dict is built and executed, count += 1; after the last one the
\* loop is left for the commit
execute_price(symbol) ==
    LET count == session.syncs[symbol].count
        prices == FetchedBars(symbol)
    IN  /\ session.syncs[symbol].pc = "save"
        /\ count < Len(prices)
        /\ sync_goes(symbol,
                     db_execute(PriceStatement(
                         PriceRow(NewId(symbol), prices[count + 1], <<>>))),
                     IF count + 1 = Len(prices) THEN "commit_prices"
                     ELSE "save",
                     count + 1)

\* a turn of the loop raises before its statement is executed (a price
\* dict without a key, a close price that does not divide by the rate):
\* the exception leaves _save_prices_batch for the except block of
\* sync_stock_prices, the transaction stays open
price_raises(symbol) ==
    /\ session.syncs[symbol].pc = "save"
    /\ session.syncs[symbol].count < MaxBars
    /\ sync_goes(symbol, session.transaction, "fail",
                 session.syncs[symbol].count)

\* both symbols are known, nothing is stored for them, and the gather
\* has started the sync of each on the shared session
SharedSessionInit ==
    /\ today = StartDay
    /\ stocks = {[id |-> NewId(s), symbol |-> s, listing_date |-> None] :
                    s \in Symbols}
    /\ stock_prices = EmptyBag
    /\ sync_status = <<>>
    /\ exchange_rates = {}
    /\ pc = [p \in SeqCallers |-> "idle"]
    /\ locals = [p \in SeqCallers |-> NoLocals]
    /\ returned = None
    /\ lastOk = None
    /\ calls_left = -1
    /\ UsdIdle
    /\ CacheIdle
    /\ JobIdle
    /\ market_ret = None
    /\ batch_state = None
    /\ batch_history = <<>>
    /\ popular_stocks_cache = {}
    /\ batch = NoBatch
    /\ batch_ret = None
    /\ scheduler = "running"
    /\ appenders = [a \in Appenders |-> "idle"]
    /\ appended = [k \in HistoryKeys |-> 0]
    /\ stock_realtime_cache = [s \in Symbols |-> None]
    /\ writers = [w \in Writers |-> NoWrite]
    /\ session = [transaction |-> <<>>,
                  syncs |-> [s \in Symbols |->
                                [pc |-> "set_syncing", count |-> 0]]]

SharedSessionNext ==
    \/ \E symbol \in Symbols : execute_sync_status(symbol)
    \/ \E symbol \in Symbols : execute_price(symbol)
    \/ \E symbol \in Symbols : price_raises(symbol)
    \/ \E symbol \in Symbols : db_commit(symbol)

SharedSessionSpec == SharedSessionInit /\ [][SharedSessionNext]_vars

\* the price rows committed for a symbol
CommittedBars(symbol) == PriceRows(NewId(symbol))

\* C31: the bars of one call of _save_prices_batch are committed
\* atomically: in every state the committed table holds, for each symbol,
\* all the bars of its call or none of them, also when the call fails
\* midway and failed is recorded, and when the syncs of other symbols run
\* on the same session.
C31_BarsCommittedAllOrNone ==
    \A symbol \in Symbols :
        Cardinality(CommittedBars(symbol)) \in {0, MaxBars}

====
